---- MODULE Spec2Model ----
(***************************************************************************)
(* Verification model of the tablero data-table engine: the sort, filter   *)
(* and pagination engines (packages/core), the URL codec and its debounced *)
(* writer (packages/utils/urlSync.ts) and the state coordinator            *)
(* (useDataTable).                                                         *)
(*                                                                         *)
(* Representation of JavaScript values:                                    *)
(*   - a string is a sequence of one-character strings, "ab" = <<"a","b">> *)
(*   - a nullable string uses the markers NULL and UNDEFINED below         *)
(*   - a value of type `unknown` (a cell value) is a tagged record:        *)
(*     Num(n), Str(s), NullV, UndefV                                       *)
(*   - an object is a function from its own property names to values; a    *)
(*     property that is absent is not in the DOMAIN ("k" in obj)           *)
(***************************************************************************)
EXTENDS Integers, Sequences, FiniteSets, TLC

VARIABLES
    \* ---- sort engine harness (SpecSort) ----
    sData,      \* the input list handed to applySort
    sState,     \* the current SortState
    sState0,    \* the SortState the run started from
    sCol,       \* the column the toggles are applied to
    sCount,     \* number of toggleSort calls applied so far
    sLast,      \* what the last step was: "init", "toggle", "apply"
    sPrev,      \* the SortState before the last toggle
    sServer,    \* the serverMode flag of the last applySort call
    sResult,    \* the list applySort returned (<<>> before any call)
    \* ---- ownership-mode resolution harness (SpecMode) ----
    mCfg,       \* the `state` option handed to useDataTable (UndefV: none)
    mMode,      \* the ownership mode the hook resolved ("unresolved" before)
    \* ---- debounced URL writer (SpecUrl) ----
    uState,     \* currentState of the mounted table
    uTimeoutId, \* createDebouncedFunction's closure variable (0: null)
    uTimers,    \* the timeouts the host has pending
    uNextId,    \* the id the next setTimeout returns
    uNow,       \* the clock
    uMounted,   \* whether the table is mounted
    uLocation,  \* the query string of the location
    uChanges,   \* state changes so far
    uLastChange,         \* when currentState last changed (0: mount)
    uBurst,              \* changes of the current burst, each less than
                         \* debounceMs after the one before
    uWritesSinceChange,  \* setSearchParams calls since the last change
    uLastWrite,          \* the last setSearchParams call: when, which state
    uWritesAfterUnmount, \* setSearchParams calls made after teardown
    \* ---- state coordinator (Spec) ----
    stateConfig,         \* the `state` option (UndefV: none); the owner's
                         \* values live in it
    urlSyncEnabled,      \* urlSync.enabled
    search,              \* the location's query string at construction
    internalPagination,
    internalSorting,
    internalFiltering,
    internalSelection,
    calls,      \* the listeners the last mutator invoked, with their argument
    lastOp,     \* the last step: "mount", "owner", or the slice a mutator changed
    \* ---- data pipeline (SpecPipe) ----
    pData,        \* the `data` option
    pFiltering,   \* currentFiltering
    pSorting,     \* currentSorting
    pPagination,  \* currentPagination
    pServerMode,  \* the `serverMode` option (UndefV: none)
    pFiltered,    \* filteredData
    pFilteredRef, \* which array filteredData is: "data" (the input) or "fresh"
    pSorted,      \* sortedData
    pPaginated,   \* paginatedData
    pAgain,       \* the three engine functions applied to paginatedData
    pLast,        \* the last step: "init", "render" or "reapply"
    \* ---- URL codec (SpecCodec) ----
    cState,       \* the table state handed to serializeStateToUrl
    cParams,      \* the query parameters handed to it
    cConfig,      \* the UrlSyncConfig
    cOut,         \* the parameters it returned
    cParamsAfter, \* the collection it was handed, after the call
    cParsed,      \* parseStateFromUrl of what it returned
    cLast,        \* the last step: "init", "serialize" or "parse"
    \* ---- row selection (SpecSel) ----
    kCfg,         \* the selection options and getRowKey
    kSelection,   \* currentSelection
    kPagination,  \* currentPagination
    kOp,          \* the last call: "mount", "select", ..., "goToPage"
    kArg,         \* the row id the last call was given (0: none)
    kPrev,        \* the selection before the last call
    kPrevOp,      \* the call before the last
    kPrev2,       \* the selection before the call before the last
    \* ---- one call of a pure function (SpecPage, SpecOrder, SpecState) ----
    xArgs,        \* the arguments
    xResult,      \* what the call returned
    xLast         \* the function called ("init" before the call)

sortVars == <<sData, sState, sState0, sCol, sCount, sLast, sPrev, sServer, sResult>>
modeVars == <<mCfg, mMode>>
urlVars == <<uState, uTimeoutId, uTimers, uNextId, uNow, uMounted, uLocation,
             uChanges, uLastChange, uBurst, uWritesSinceChange, uLastWrite,
             uWritesAfterUnmount>>
hookVars == <<stateConfig, urlSyncEnabled, search, internalPagination,
              internalSorting, internalFiltering, internalSelection, calls,
              lastOp>>

pipeVars == <<pData, pFiltering, pSorting, pPagination, pServerMode, pFiltered,
              pFilteredRef, pSorted, pPaginated, pAgain, pLast>>
codecVars == <<cState, cParams, cConfig, cOut, cParamsAfter, cParsed, cLast>>

selVars == <<kCfg, kSelection, kPagination, kOp, kArg, kPrev, kPrevOp, kPrev2>>
callVars == <<xArgs, xResult, xLast>>

vars == <<sortVars, modeVars, urlVars, hookVars, pipeVars, codecVars, selVars,
          callVars>>


----------------------------------------------------------------------------
(* Bounds of the model *)

\* longest input list handed to applySort
MaxLen == 3
\* most toggleSort calls applied in a row
MaxToggles == 4

\* the debounce delay of the URL writer, in clock ticks
DebounceMs == 2

\* the clock of the URL writer stops here
MaxTime == 5

\* state changes of one run of the URL writer
MaxChanges == 3

\* longest `data` list handed to the pipeline
MaxRows == 2

\* most query parameters in the string handed to serializeStateToUrl
MaxParams == 2

----------------------------------------------------------------------------
(* JavaScript values *)

\* null / undefined for nullable strings; no string equals them, because
\* every string is a sequence of one-character strings
NULL == <<"<null>">>
UNDEFINED == <<"<undefined>">>

Num(n) == [t |-> "number", n |-> n]
Str(s) == [t |-> "string", s |-> s]
NullV == [t |-> "null"]
UndefV == [t |-> "undefined"]

\* value === null || value === undefined
IsMissing(v) == v.t = "null" \/ v.t = "undefined"

ASC == <<"a", "s", "c">>
DESC == <<"d", "e", "s", "c">>

\* column ids used by the model's tables
ID == <<"i", "d">>
COL_N == <<"n">>
COL_A == <<"a">>
\* an id that names no column
COL_X == <<"x">>

Sign(i) == IF i < 0 THEN -1 ELSE IF i > 0 THEN 1 ELSE 0


\* all permutations of the sequence s, as sequences
PermutationsOf(s) ==
    { [i \in 1..Len(s) |-> s[p[i]]] :
        p \in { q \in [1..Len(s) -> 1..Len(s)] :
                  \A i, j \in 1..Len(s) : i # j => q[i] # q[j] } }

----------------------------------------------------------------------------
(* Sort engine: core/sorting *)

createInitialSortState == [columnId |-> NULL, direction |-> NULL]

toggleSortNoReset(currentState, columnId) ==
    IF currentState.columnId = columnId /\ currentState.direction = ASC
    THEN [columnId |-> columnId, direction |-> DESC]
    ELSE IF currentState.columnId = columnId /\ currentState.direction = DESC
    THEN [columnId |-> columnId, direction |-> ASC]
    ELSE [columnId |-> columnId, direction |-> ASC]

toggleSort(currentState, columnId) ==
    IF currentState.columnId = columnId /\ currentState.direction = ASC
    THEN [columnId |-> columnId, direction |-> DESC]
    ELSE IF currentState.columnId = columnId /\ currentState.direction = DESC
    THEN [columnId |-> NULL, direction |-> NULL]
    ELSE [columnId |-> columnId, direction |-> ASC]

setSort(columnId, direction) == [columnId |-> columnId, direction |-> direction]

clearSort == createInitialSortState

isSortActive(state) == state.columnId # NULL /\ state.direction # NULL

\* ---- strings ----
Digits == <<"0", "1", "2", "3", "4", "5", "6", "7", "8", "9">>
LowerCase == <<"a", "b", "c", "d", "e", "f", "g", "h", "i", "j", "k", "l", "m",
               "n", "o", "p", "q", "r", "s", "t", "u", "v", "w", "x", "y", "z">>
UpperCase == <<"A", "B", "C", "D", "E", "F", "G", "H", "I", "J", "K", "L", "M",
               "N", "O", "P", "Q", "R", "S", "T", "U", "V", "W", "X", "Y", "Z">>

IndexIn(c, table) ==
    IF \E i \in 1..Len(table) : table[i] = c
    THEN CHOOSE i \in 1..Len(table) : table[i] = c
    ELSE 0

\* String(n) for an integer n
RECURSIVE NatToString(_)
NatToString(n) ==
    IF n < 10 THEN <<Digits[n + 1]>>
    ELSE NatToString(n \div 10) \o <<Digits[(n % 10) + 1]>>

NumberToString(n) == IF n < 0 THEN <<"-">> \o NatToString(-n) ELSE NatToString(n)

\* String(value) of a cell value
StringOf(v) ==
    CASE v.t = "number" -> NumberToString(v.n)
      [] v.t = "string" -> v.s
      [] v.t = "null" -> <<"n", "u", "l", "l">>
      [] v.t = "undefined" -> <<"u", "n", "d", "e", "f", "i", "n", "e", "d">>

\* String.prototype.localeCompare (default collation) on letters, digits,
\* space and "-": primary weights order punctuation < digits < letters and
\* ignore case; a tie at the primary level is broken by case, lower first.
PrimaryWeight(c) ==
    IF IndexIn(c, Digits) > 0 THEN 10 + IndexIn(c, Digits)
    ELSE IF IndexIn(c, LowerCase) > 0 THEN 20 + IndexIn(c, LowerCase)
    ELSE IF IndexIn(c, UpperCase) > 0 THEN 20 + IndexIn(c, UpperCase)
    ELSE IF c = " " THEN 1
    ELSE 2

CaseWeight(c) == IF IndexIn(c, UpperCase) > 0 THEN 1 ELSE 0

RECURSIVE LexCompare(_, _)
LexCompare(u, v) ==
    IF u = <<>> /\ v = <<>> THEN 0
    ELSE IF u = <<>> THEN -1
    ELSE IF v = <<>> THEN 1
    ELSE IF Head(u) < Head(v) THEN -1
    ELSE IF Head(u) > Head(v) THEN 1
    ELSE LexCompare(Tail(u), Tail(v))

localeCompare(x, y) ==
    LET px == [i \in 1..Len(x) |-> PrimaryWeight(x[i])]
        py == [i \in 1..Len(y) |-> PrimaryWeight(y[i])]
        cx == [i \in 1..Len(x) |-> CaseWeight(x[i])]
        cy == [i \in 1..Len(y) |-> CaseWeight(y[i])]
    IN  IF LexCompare(px, py) # 0 THEN LexCompare(px, py) ELSE LexCompare(cx, cy)

defaultCompare(a, b) ==
    IF a = b THEN 0
    ELSE IF IsMissing(a) THEN 1
    ELSE IF IsMissing(b) THEN -1
    ELSE IF a.t = "number" /\ b.t = "number" THEN a.n - b.n
    ELSE IF a.t = "string" /\ b.t = "string" THEN localeCompare(a.s, b.s)
    ELSE localeCompare(StringOf(a), StringOf(b))

\* (variant used to test C27: the direction is ignored)
createComparatorAscending(direction, a, b) == defaultCompare(a, b)

\* createComparator(direction, defaultCompare) applied to (a, b)
createComparator(direction, a, b) ==
    IF direction = ASC THEN defaultCompare(a, b) ELSE -defaultCompare(a, b)

\* The comparator of the given direction is consistent on the values vs
\* (ECMAScript, "consistent comparator"): only then is the order
\* Array.prototype.sort produces determined; otherwise it is
\* implementation-defined.
ConsistentComparator(vs, direction) ==
    LET cmp(a, b) == createComparator(direction, a, b)
    IN  /\ \A a \in vs : cmp(a, a) = 0
        /\ \A a, b \in vs : Sign(cmp(a, b)) = -Sign(cmp(b, a))
        /\ \A a, b, c \in vs : cmp(a, b) <= 0 /\ cmp(b, c) <= 0 => cmp(a, c) <= 0
        /\ \A a, b, c \in vs : cmp(a, b) = 0 /\ cmp(b, c) = 0 => cmp(a, c) = 0
        /\ \A a, b, c \in vs : cmp(a, b) < 0 /\ cmp(b, c) <= 0 => cmp(a, c) < 0
        /\ \A a, b, c \in vs : cmp(a, b) <= 0 /\ cmp(b, c) < 0 => cmp(a, c) < 0

\* [...data].sort((a, b) => comparator(key(a), key(b))), keys[i] being the
\* sort key of data[i]: the set of lists the call can return.  With a
\* consistent comparator this is the one stable ordering (computed here by
\* insertion); with an inconsistent one any permutation of the input.
ArraySort(data, keys, direction) ==
    LET n == Len(data)
        cmp(i, j) == createComparator(direction, keys[i], keys[j])
        \* insert index x into the sorted index list s, after its equals
        RECURSIVE Insert(_, _)
        Insert(s, x) ==
            IF s = <<>> THEN <<x>>
            ELSE IF cmp(s[Len(s)], x) > 0
                 THEN Append(Insert(SubSeq(s, 1, Len(s) - 1), x), s[Len(s)])
                 ELSE Append(s, x)
        RECURSIVE SortPrefix(_)
        SortPrefix(k) == IF k = 0 THEN <<>> ELSE Insert(SortPrefix(k - 1), k)
        order == SortPrefix(n)
    IN  IF ConsistentComparator({keys[i] : i \in 1..n}, direction)
        THEN {[i \in 1..n |-> data[order[i]]]}
        ELSE PermutationsOf(data)

\* A record is an object: a function from property names to cell values.
\* A column made by col(key) has the key as id and reads that property.
createColumn(key) == [id |-> key, accessorKey |-> key]

accessor(column, item) ==
    IF column.accessorKey \in DOMAIN item THEN item[column.accessorKey] ELSE UndefV

\* (variant used to test C36: the property of that name is read from the
\* record itself)
getValueOfProperty(columns, item, columnId) ==
    IF columnId \in DOMAIN item THEN item[columnId] ELSE UndefV

\* useDataTable.getValue: the value of the column with that id, undefined
\* when no column has it
getValue(columns, item, columnId) ==
    IF \E k \in 1..Len(columns) : columns[k].id = columnId
    THEN accessor(columns[CHOOSE k \in 1..Len(columns) :
                            /\ columns[k].id = columnId
                            /\ \A m \in 1..(k - 1) : columns[m].id # columnId], item)
    ELSE UndefV

\* applySort(data, sortState, getValue, undefined, serverMode), getValue
\* being the accessor over `columns`: the set of lists the call can return
applySort(data, sortState, columns, serverMode) ==
    IF serverMode = TRUE THEN {data}
    ELSE IF ~isSortActive(sortState) \/ sortState.columnId = <<>> THEN {data}
    ELSE ArraySort(data,
                   [i \in 1..Len(data) |-> getValue(columns, data[i], sortState.columnId)],
                   sortState.direction)

----------------------------------------------------------------------------
(* Objects and strings *)

\* {} : the object with no property
EmptyObject == [k \in {} |-> <<>>]

\* {...a, ...b}
Spread(a, b) ==
    [k \in DOMAIN a \cup DOMAIN b |-> IF k \in DOMAIN b THEN b[k] ELSE a[k]]

\* {[key]: value}
Prop(key, value) == [k \in {key} |-> value]

\* the object without the property `key`
Omit(obj, key) == [k \in DOMAIN obj \ {key} |-> obj[k]]

Min2(a, b) == IF a < b THEN a ELSE b
Max2(a, b) == IF a > b THEN a ELSE b

\* String.prototype.toLowerCase
toLowerCase(str) ==
    [i \in 1..Len(str) |->
        IF IndexIn(str[i], UpperCase) > 0
        THEN LowerCase[IndexIn(str[i], UpperCase)]
        ELSE str[i]]

\* String.prototype.trim (the model's only white space is " ")
RECURSIVE trimStart(_)
trimStart(str) ==
    IF str # <<>> /\ Head(str) = " " THEN trimStart(Tail(str)) ELSE str

RECURSIVE trimEnd(_)
trimEnd(str) ==
    IF str # <<>> /\ str[Len(str)] = " "
    THEN trimEnd(SubSeq(str, 1, Len(str) - 1))
    ELSE str

trim(str) == trimEnd(trimStart(str))

\* String.prototype.includes
includes(str, searchString) ==
    \E i \in 1..(Len(str) + 1) :
        /\ i + Len(searchString) - 1 <= Len(str)
        /\ SubSeq(str, i, i + Len(searchString) - 1) = searchString

\* String.prototype.startsWith
startsWith(str, prefix) ==
    Len(prefix) <= Len(str) /\ SubSeq(str, 1, Len(prefix)) = prefix

\* Array.prototype.slice(start, end)
ArraySlice(data, start, end) ==
    LET len == Len(data)
        from == IF start < 0 THEN Max2(len + start, 0) ELSE Min2(start, len)
        to == IF end < 0 THEN Max2(len + end, 0) ELSE Min2(end, len)
    IN  SubSeq(data, from + 1, to)

\* a JavaScript string used as a condition: neither null nor ""
Truthy(str) == str # NULL /\ str # UNDEFINED /\ str # <<>>

----------------------------------------------------------------------------
(* Filter engine: core/filtering.ts *)

createInitialFilterState == [globalFilter |-> <<>>, columnFilters |-> EmptyObject]

setGlobalFilter(filter) == [globalFilter |-> filter, columnFilters |-> EmptyObject]

\* (variant used to test C40: the other columns' filters are not spread)
setColumnFilterAlone(state, columnId, filter) ==
    [state EXCEPT !.columnFilters = Prop(columnId, filter)]

setColumnFilter(state, columnId, filter) ==
    [state EXCEPT !.columnFilters = Spread(@, Prop(columnId, filter))]

clearColumnFilter(state, columnId) ==
    [state EXCEPT !.columnFilters = Omit(@, columnId)]

clearAllFilters == createInitialFilterState

isFilterActive(state) ==
    \/ trim(state.globalFilter) # <<>>
    \/ \E c \in DOMAIN state.columnFilters : trim(state.columnFilters[c]) # <<>>

\* defaultMatch: case-insensitive substring match
defaultMatch(value, filter) ==
    IF trim(filter) = <<>> THEN TRUE
    ELSE LET normalizedFilter == trim(toLowerCase(filter))
             normalizedValue ==
                 toLowerCase(IF IsMissing(value) THEN <<>> ELSE StringOf(value))
         IN  includes(normalizedValue, normalizedFilter)

\* (variant used to test C14: the global filter is applied next to the
\* column filters)
FilterKeepsGlobalToo(item, filterState, columns) ==
    /\ trim(filterState.globalFilter) # <<>> =>
          \E p \in DOMAIN item : defaultMatch(item[p], filterState.globalFilter)
    /\ \A c \in DOMAIN filterState.columnFilters :
          trim(filterState.columnFilters[c]) # <<>> =>
              defaultMatch(getValue(columns, item, c), filterState.columnFilters[c])

\* the callback of data.filter in applyFilters: whether the item is kept
FilterKeeps(item, filterState, columns) ==
    /\ trim(filterState.globalFilter) # <<>> =>
          IF DOMAIN filterState.columnFilters = {}
          THEN \E p \in DOMAIN item : defaultMatch(item[p], filterState.globalFilter)
          ELSE TRUE
    /\ \A c \in DOMAIN filterState.columnFilters :
          trim(filterState.columnFilters[c]) # <<>> =>
              defaultMatch(getValue(columns, item, c), filterState.columnFilters[c])

\* (variant used to test C12: an inactive filter state keeps nothing)
applyFiltersInactiveEmpty(data, filterState, columns, serverMode) ==
    IF serverMode = TRUE THEN data
    ELSE IF ~isFilterActive(filterState) THEN <<>>
    ELSE SelectSeq(data, LAMBDA item : FilterKeeps(item, filterState, columns))

\* applyFilters(data, filterState, getValue, defaultMatch, serverMode),
\* getValue being the accessor over `columns`
applyFilters(data, filterState, columns, serverMode) ==
    IF serverMode = TRUE THEN data
    ELSE IF ~isFilterActive(filterState) THEN data
    ELSE SelectSeq(data, LAMBDA item : FilterKeeps(item, filterState, columns))

----------------------------------------------------------------------------
(* Pagination engine: core/pagination *)

\* Math.ceil(a / b) for b > 0
CeilDiv(a, b) == -((-a) \div b)

\* getPageCount(totalItems, pageSize) without a server page count
getPageCount(totalItems, pageSize) ==
    IF pageSize <= 0 THEN 0 ELSE CeilDiv(totalItems, pageSize)

getPageStartIndex(pageIndex, pageSize) == pageIndex * pageSize

getPageEndIndex(pageIndex, pageSize, totalItems) ==
    Min2(getPageStartIndex(pageIndex, pageSize) + pageSize, totalItems)

\* (variant used to test C25: the upper limit is totalPages, not totalPages - 1)
clampPageIndexInclusive(pageIndex, totalPages) ==
    IF totalPages = 0 THEN 0 ELSE Max2(0, Min2(pageIndex, totalPages))

clampPageIndex(pageIndex, totalPages) ==
    IF totalPages = 0 THEN 0 ELSE Max2(0, Min2(pageIndex, totalPages - 1))

goToNextPage(state, totalPages) ==
    [state EXCEPT !.pageIndex = clampPageIndex(state.pageIndex + 1, totalPages)]

goToPreviousPage(state, totalPages) ==
    [state EXCEPT !.pageIndex = clampPageIndex(state.pageIndex - 1, totalPages)]

goToPage(state, pageIndex, totalPages) ==
    [state EXCEPT !.pageIndex = clampPageIndex(pageIndex, totalPages)]

\* (variant used to test C33: pageIndex is not clamped again)
setPageSizeKeepsIndex(state, pageSize, totalItems) ==
    [state EXCEPT !.pageSize = pageSize]

\* setPageSize(state, pageSize, totalItems?), totalItems being Num(n) or,
\* when the argument is left out, UndefV
setPageSize(state, pageSize, totalItems) ==
    LET totalPages ==
            IF "pageCount" \in DOMAIN state THEN state.pageCount
            ELSE IF "totalCount" \in DOMAIN state
                 THEN getPageCount(state.totalCount, pageSize)
                 ELSE IF totalItems # UndefV
                      THEN getPageCount(totalItems.n, pageSize)
                      ELSE 0
    IN  [state EXCEPT !.pageIndex = clampPageIndex(state.pageIndex, totalPages),
                      !.pageSize = pageSize]

\* (variant used to test C16: the page starts one record late)
getPaginatedDataLateStart(data, pagination, serverMode) ==
    IF serverMode = TRUE THEN data
    ELSE ArraySlice(data,
                    getPageStartIndex(pagination.pageIndex, pagination.pageSize) + 1,
                    getPageEndIndex(pagination.pageIndex, pagination.pageSize,
                                    Len(data)))

\* (variant used to test C26: the slice takes one record more)
getPaginatedDataInclusiveEnd(data, pagination, serverMode) ==
    IF serverMode = TRUE THEN data
    ELSE ArraySlice(data,
                    getPageStartIndex(pagination.pageIndex, pagination.pageSize),
                    getPageEndIndex(pagination.pageIndex, pagination.pageSize,
                                    Len(data)) + 1)

getPaginatedData(data, pagination, serverMode) ==
    IF serverMode = TRUE THEN data
    ELSE ArraySlice(data,
                    getPageStartIndex(pagination.pageIndex, pagination.pageSize),
                    getPageEndIndex(pagination.pageIndex, pagination.pageSize,
                                    Len(data)))

hasNextPage(pageIndex, totalPages) == pageIndex < totalPages - 1

hasPreviousPage(pageIndex) == pageIndex > 0

----------------------------------------------------------------------------
(* URL codec: utils/urlSync.ts.  A URLSearchParams object is the sequence  *)
(* of its <<key, value>> pairs.                                            *)

\* URLSearchParams.get: the value of the first pair named `name`, or null
ParamsGet(params, name) ==
    LET idx == {i \in 1..Len(params) : params[i][1] = name}
    IN  IF idx = {} THEN NULL
        ELSE params[CHOOSE i \in idx : \A j \in idx : i <= j][2]

\* URLSearchParams.delete: removes every pair named `name`
ParamsDelete(params, name) == SelectSeq(params, LAMBDA p : p[1] # name)

\* (variant used to test C20: set discards every other pair)
ParamsSetOnly(params, name, value) == <<<<name, value>>>>

\* URLSearchParams.set: overwrites the first pair named `name` and removes
\* the others, or appends a pair when there is none
ParamsSet(params, name, value) ==
    LET idx == {i \in 1..Len(params) : params[i][1] = name}
    IN  IF idx = {} THEN Append(params, <<name, value>>)
        ELSE LET first == CHOOSE i \in idx : \A j \in idx : i <= j
                 kept == {i \in 1..Len(params) : i = first \/ params[i][1] # name}
                 RECURSIVE Build(_)
                 Build(i) ==
                     IF i > Len(params) THEN <<>>
                     ELSE IF i = first THEN <<<<name, value>>>> \o Build(i + 1)
                     ELSE IF i \in kept THEN <<params[i]>> \o Build(i + 1)
                     ELSE Build(i + 1)
             IN  Build(1)

DEFAULT_PARAM_NAMES ==
    [page |-> <<"p", "a", "g", "e">>,
     pageSize |-> <<"p", "a", "g", "e", "S", "i", "z", "e">>,
     sortColumn |-> <<"s", "o", "r", "t">>,
     sortDir |-> <<"s", "o", "r", "t", "D", "i", "r">>,
     globalFilter |-> <<"q">>,
     columnFilterPrefix |-> <<"f", "i", "l", "t", "e", "r", "_">>]

DEFAULT_FEATURES == [pagination |-> TRUE, sorting |-> TRUE, filtering |-> TRUE]

\* { ...DEFAULT_PARAM_NAMES, ...config.paramNames }
ParamNamesOf(config) ==
    IF config.paramNames = UndefV THEN DEFAULT_PARAM_NAMES
    ELSE Spread(DEFAULT_PARAM_NAMES, config.paramNames)

\* config.features ?? { pagination: true, sorting: true, filtering: true }
FeaturesOf(config) ==
    IF config.features = UndefV THEN DEFAULT_FEATURES ELSE config.features

\* features[name] !== false
FeatureOn(features, name) == ~(name \in DOMAIN features /\ features[name] = FALSE)

\* the value of a run of decimal digits, most significant first
RECURSIVE DigitsValue(_, _)
DigitsValue(str, acc) ==
    IF str = <<>> \/ IndexIn(Head(str), Digits) = 0 THEN acc
    ELSE DigitsValue(Tail(str), 10 * acc + (IndexIn(Head(str), Digits) - 1))

\* parseInt(str, 10): leading white space, an optional sign, then the
\* longest run of digits; NaN when that run is empty
parseInt(str) ==
    LET s1 == trimStart(str)
        neg == s1 # <<>> /\ Head(s1) = "-"
        s2 == IF s1 # <<>> /\ Head(s1) \in {"-", "+"} THEN Tail(s1) ELSE s1
    IN  IF s2 = <<>> \/ IndexIn(Head(s2), Digits) = 0
        THEN [isNaN |-> TRUE, n |-> 0]
        ELSE [isNaN |-> FALSE,
              n |-> IF neg THEN -DigitsValue(s2, 0) ELSE DigitsValue(s2, 0)]

parsePaginationFromUrl(params, paramNames) ==
    LET pageParam == ParamsGet(params, paramNames.page)
        pageSizeParam == ParamsGet(params, paramNames.pageSize)
        pageIndex == parseInt(pageParam)
        pageSize == parseInt(pageSizeParam)
        p1 == IF Truthy(pageParam) /\ ~pageIndex.isNaN /\ pageIndex.n >= 0
              THEN Prop("pageIndex", pageIndex.n) ELSE EmptyObject
        p2 == IF Truthy(pageSizeParam) /\ ~pageSize.isNaN /\ pageSize.n > 0
              THEN Prop("pageSize", pageSize.n) ELSE EmptyObject
    IN  Spread(p1, p2)

parseSortingFromUrl(params, paramNames) ==
    LET columnId == ParamsGet(params, paramNames.sortColumn)
        direction == ParamsGet(params, paramNames.sortDir)
        sortDirection ==
            IF Truthy(direction) /\ toLowerCase(direction) \in {ASC, DESC}
            THEN toLowerCase(direction) ELSE NULL
    IN  IF ~Truthy(columnId) THEN EmptyObject
        ELSE [columnId |-> columnId, direction |-> sortDirection]

\* the column filters collected by params.forEach: a later pair of the same
\* column overwrites an earlier one
RECURSIVE CollectColumnFilters(_, _, _)
CollectColumnFilters(params, prefix, columnFilters) ==
    IF params = <<>> THEN columnFilters
    ELSE LET key == Head(params)[1]
             value == Head(params)[2]
             columnId == SubSeq(key, Len(prefix) + 1, Len(key))
         IN  IF startsWith(key, prefix) /\ columnId # <<>> /\ value # <<>>
             THEN CollectColumnFilters(Tail(params), prefix,
                                       Spread(columnFilters, Prop(columnId, value)))
             ELSE CollectColumnFilters(Tail(params), prefix, columnFilters)

parseFilteringFromUrl(params, paramNames) ==
    LET q == ParamsGet(params, paramNames.globalFilter)
    IN  [globalFilter |-> IF Truthy(q) THEN q ELSE <<>>,
         columnFilters |->
             CollectColumnFilters(params, paramNames.columnFilterPrefix, EmptyObject)]

\* parseStateFromUrl: a Partial<TableState>, a slice being present only
\* when the URL holds something for it
parseStateFromUrl(params, config) ==
    LET paramNames == ParamNamesOf(config)
        features == FeaturesOf(config)
        pagination == parsePaginationFromUrl(params, paramNames)
        sorting == parseSortingFromUrl(params, paramNames)
        filtering == parseFilteringFromUrl(params, paramNames)
        s1 == IF FeatureOn(features, "pagination") /\ DOMAIN pagination # {}
              THEN Prop("pagination", pagination) ELSE EmptyObject
        s2 == IF FeatureOn(features, "sorting") /\ DOMAIN sorting # {}
              THEN Prop("sorting", sorting) ELSE EmptyObject
        s3 == IF /\ FeatureOn(features, "filtering")
                 /\ \/ filtering.globalFilter # <<>>
                    \/ DOMAIN filtering.columnFilters # {}
              THEN Prop("filtering", filtering) ELSE EmptyObject
    IN  Spread(Spread(s1, s2), s3)

serializePaginationToUrl(pagination, params, paramNames) ==
    LET p1 == IF pagination.pageIndex > 0
              THEN ParamsSet(params, paramNames.page,
                             NumberToString(pagination.pageIndex))
              ELSE ParamsDelete(params, paramNames.page)
    IN  IF pagination.pageSize # 10
        THEN ParamsSet(p1, paramNames.pageSize, NumberToString(pagination.pageSize))
        ELSE ParamsDelete(p1, paramNames.pageSize)

serializeSortingToUrl(sorting, params, paramNames) ==
    IF Truthy(sorting.columnId)
    THEN LET p1 == ParamsSet(params, paramNames.sortColumn, sorting.columnId)
         IN  IF Truthy(sorting.direction)
             THEN ParamsSet(p1, paramNames.sortDir, sorting.direction)
             ELSE ParamsDelete(p1, paramNames.sortDir)
    ELSE ParamsDelete(ParamsDelete(params, paramNames.sortColumn), paramNames.sortDir)

\* params.forEach((_, key) => { if (key.startsWith(prefix)) params.delete(key) }):
\* forEach walks the live list by position, so a deletion at position i moves
\* the following pair into position i, and the walk goes on at i + 1
RECURSIVE ForEachDeletePrefixed(_, _, _)
ForEachDeletePrefixed(params, prefix, i) ==
    IF i > Len(params) THEN params
    ELSE IF startsWith(params[i][1], prefix)
         THEN ForEachDeletePrefixed(ParamsDelete(params, params[i][1]), prefix, i + 1)
         ELSE ForEachDeletePrefixed(params, prefix, i + 1)

\* Object.entries(columnFilters).forEach(params.set) for the non-empty
\* filters.  The object model keeps no insertion order; the entries are
\* taken in one fixed order.
RECURSIVE SetColumnFilters(_, _, _)
SetColumnFilters(params, prefix, columnFilters) ==
    IF DOMAIN columnFilters = {} THEN params
    ELSE LET columnId == CHOOSE c \in DOMAIN columnFilters : TRUE
             value == columnFilters[columnId]
             next == IF value # <<>>
                     THEN ParamsSet(params, prefix \o columnId, value)
                     ELSE params
         IN  SetColumnFilters(next, prefix, Omit(columnFilters, columnId))

serializeFilteringToUrl(filtering, params, paramNames) ==
    LET p1 == IF filtering.globalFilter # <<>>
              THEN ParamsSet(params, paramNames.globalFilter, filtering.globalFilter)
              ELSE ParamsDelete(params, paramNames.globalFilter)
        p2 == ForEachDeletePrefixed(p1, paramNames.columnFilterPrefix, 1)
    IN  SetColumnFilters(p2, paramNames.columnFilterPrefix, filtering.columnFilters)

serializeStateToUrl(state, currentParams, config) ==
    LET paramNames == ParamNamesOf(config)
        features == FeaturesOf(config)
        p1 == IF FeatureOn(features, "pagination")
              THEN serializePaginationToUrl(state.pagination, currentParams, paramNames)
              ELSE currentParams
        p2 == IF FeatureOn(features, "sorting")
              THEN serializeSortingToUrl(state.sorting, p1, paramNames)
              ELSE p1
    IN  IF FeatureOn(features, "filtering")
        THEN serializeFilteringToUrl(state.filtering, p2, paramNames)
        ELSE p2

----------------------------------------------------------------------------
(* Debounced writer: createDebouncedFunction.  `timers` is the set of      *)
(* timeouts the host has pending, a timeout being [id, due, args];         *)
(* timeoutId is the closure variable, 0 standing for null.                 *)

clearTimeout(timers, id) == {t \in timers : t.id # id}

\* debounced(...args) at time `now`: result is the closure variable and the
\* host's timers afterwards; `id` is the fresh id setTimeout returns
debounced(timeoutId, timers, id, now, delayMs, args) ==
    LET cleared == IF timeoutId # 0 THEN clearTimeout(timers, timeoutId) ELSE timers
    IN  [timeoutId |-> id,
         timers |-> cleared \cup {[id |-> id, due |-> now + delayMs, args |-> args]}]

cancelKeepsTimer(timeoutId, timers) == [timeoutId |-> 0, timers |-> timers]

\* debounced.cancel()
cancel(timeoutId, timers) ==
    IF timeoutId # 0
    THEN [timeoutId |-> 0, timers |-> clearTimeout(timers, timeoutId)]
    ELSE [timeoutId |-> timeoutId, timers |-> timers]

EffectCleanupNoCancel(timeoutId, timers) == [timeoutId |-> timeoutId, timers |-> timers]

\* the cleanup the URL effect returns: debouncedUrlUpdateRef.current?.cancel()
EffectCleanup(timeoutId, timers) == cancel(timeoutId, timers)

----------------------------------------------------------------------------
(* State coordinator: resolution of the ownership mode *)

\* the keys isPerStateControlConfig looks for
PerStateKeys ==
    {"pagination", "sorting", "filtering", "columnVisibility", "columnOrder",
     "onStateChange", "onPaginationChange", "onSortingChange",
     "onFilteringChange", "onColumnVisibilityChange", "onColumnOrderChange"}

\* every key a `state` option can carry
StateConfigKeys == {"state", "setState", "initialState"} \cup PerStateKeys

\* isControlledState(handler)
isControlledState(handler) ==
    "state" \in DOMAIN handler /\ "setState" \in DOMAIN handler

isPerStateControlConfigNoInitialState(state) ==
    IF state = UndefV THEN FALSE
    ELSE /\ "state" \notin DOMAIN state
         /\ \E k \in PerStateKeys : k \in DOMAIN state

\* isPerStateControlConfig(state)
isPerStateControlConfig(state) ==
    IF state = UndefV THEN FALSE
    ELSE /\ "state" \notin DOMAIN state
         /\ "initialState" \notin DOMAIN state
         /\ \E k \in PerStateKeys : k \in DOMAIN state

\* the three mode flags of useDataTable (an absent option is falsy)
isLegacyControlled(cfg) ==
    cfg # UndefV /\ isControlledState(cfg)

isPerStateControl(cfg) == isPerStateControlConfig(cfg)

isLegacyUncontrolled(cfg) ==
    /\ cfg # UndefV
    /\ ~isLegacyControlled(cfg)
    /\ ~isPerStateControl(cfg)

\* the mode every read (current*) and every write (update*State) branches
\* on: controlled first, then per-field, else internally tracked
ResolvedMode(cfg) ==
    IF isLegacyControlled(cfg) THEN "controlled"
    ELSE IF isPerStateControl(cfg) THEN "perField"
    ELSE "uncontrolled"

----------------------------------------------------------------------------
(* State coordinator: useDataTable.  The table is a client-side one        *)
(* (serverMode absent) with selection enabled in multi mode; the column    *)
(* visibility and column order slices are not part of this model.          *)

COL_NAME == <<"n", "a", "m", "e">>

\* options.data
Rows ==
    << [p \in {ID, COL_NAME} |-> IF p = ID THEN Num(1) ELSE Str(<<"a", "b">>)],
       [p \in {ID, COL_NAME} |-> IF p = ID THEN Num(2) ELSE Str(<<"b">>)],
       [p \in {ID, COL_NAME} |-> IF p = ID THEN Num(3) ELSE Str(<<"a">>)] >>

\* options.columns, through createColumns
HookColumns == <<createColumn(ID), createColumn(COL_NAME)>>

\* options.selection
selectionEnabled == TRUE
selectionMode == "multi"

createInitialSelectionState(initialSelectedRowIds) ==
    [selectedRowIds |-> initialSelectedRowIds]

\* createInitialTableState(columnIds, undefined, undefined)
createInitialTableState ==
    [sorting |-> [columnId |-> NULL, direction |-> NULL],
     pagination |-> [pageIndex |-> 0, pageSize |-> 10],
     filtering |-> [globalFilter |-> <<>>, columnFilters |-> EmptyObject],
     selection |-> createInitialSelectionState({})]

\* (variant used to test C28: the updates replace the state)
updateTableStateReplaces(state, updates) == updates

updateTableState(state, updates) == Spread(state, updates)

updateSorting(state, sorting) == updateTableState(state, Prop("sorting", sorting))

updatePagination(state, pagination) ==
    updateTableState(state, Prop("pagination", Spread(state.pagination, pagination)))

updateFiltering(state, filtering) ==
    updateTableState(state, Prop("filtering", Spread(state.filtering, filtering)))

\* updateColumnVisibility(state, columnId, visible)
updateColumnVisibility(state, columnId, visible) ==
    updateTableState(state,
        Prop("columnVisibility",
             Spread(state.columnVisibility, Prop(columnId, visible))))

updateColumnOrder(state, columnOrder) ==
    updateTableState(state, Prop("columnOrder", columnOrder))

updateSelection(state, selection) ==
    updateTableState(state, Prop("selection", selection))

selectRow(state, rowId) ==
    updateSelection(state,
        [state.selection EXCEPT !.selectedRowIds = @ \cup {rowId}])

deselectRow(state, rowId) ==
    updateSelection(state,
        [state.selection EXCEPT !.selectedRowIds = @ \ {rowId}])

toggleRowSelection(state, rowId) ==
    IF rowId \in state.selection.selectedRowIds
    THEN deselectRow(state, rowId)
    ELSE selectRow(state, rowId)

clearSelection(state) == updateSelection(state, createInitialSelectionState({}))

\* the elements of an array
Elements(arr) == {arr[i] : i \in 1..Len(arr)}

\* selectRows(state, rowIds): rowIds.forEach(add) on a copy of the set
selectRows(state, rowIds) ==
    updateSelection(state,
        [state.selection EXCEPT !.selectedRowIds = @ \cup Elements(rowIds)])

\* deselectRows(state, rowIds): rowIds.forEach(delete) on a copy of the set
deselectRows(state, rowIds) ==
    updateSelection(state,
        [state.selection EXCEPT !.selectedRowIds = @ \ Elements(rowIds)])

isRowSelected(state, rowId) == rowId \in state.selection.selectedRowIds

\* urlSyncConfigRef: no custom names, every feature synchronised
urlSyncConfigRef ==
    [enabled |-> TRUE, paramNames |-> UndefV, debounceMs |-> DebounceMs,
     features |-> UndefV]

\* urlInitialState, on a client: undefined unless URL sync is enabled
urlInitialState(enabled, query) ==
    IF ~enabled THEN UndefV ELSE parseStateFromUrl(query, urlSyncConfigRef)

\* (variant used to test C29: the catch block hands back the default state)
urlInitialStateFallsBackToBase(getSearchParamsThrows, enabled, query) ==
    IF enabled /\ getSearchParamsThrows THEN createInitialTableState
    ELSE urlInitialState(enabled, query)

\* urlInitialState with an adapter whose getSearchParams may throw: the
\* catch block returns undefined
urlInitialStateOf(getSearchParamsThrows, enabled, query) ==
    IF enabled /\ getSearchParamsThrows THEN UndefV
    ELSE urlInitialState(enabled, query)

\* obj?.[key] where the result is spread or tested: {} when there is none
OptionalSlice(obj, key) ==
    IF obj # UndefV /\ key \in DOMAIN obj THEN obj[key] ELSE EmptyObject

HasSlice(obj, key) == obj # UndefV /\ key \in DOMAIN obj

\* legacyUncontrolled?.initialState
InitialStateOf(cfg) ==
    IF cfg # UndefV /\ "initialState" \in DOMAIN cfg THEN cfg.initialState ELSE UndefV

\* (variant used to test C38: the URL's fields are spread last)
InitialPaginationUrlLast(cfg, initialPageSize, urlInit) ==
    IF isPerStateControl(cfg) /\ "pagination" \in DOMAIN cfg THEN cfg.pagination
    ELSE IF isLegacyControlled(cfg) THEN cfg.state.pagination
    ELSE Spread(Spread(Spread(createInitialTableState.pagination,
                              Prop("pageSize", initialPageSize)),
                       OptionalSlice(InitialStateOf(cfg), "pagination")),
                OptionalSlice(urlInit, "pagination"))

\* the initializer of internalPagination
InitialPagination(cfg, initialPageSize, urlInit) ==
    IF isPerStateControl(cfg) /\ "pagination" \in DOMAIN cfg THEN cfg.pagination
    ELSE IF isLegacyControlled(cfg) THEN cfg.state.pagination
    ELSE Spread(Spread(Spread(createInitialTableState.pagination,
                              Prop("pageSize", initialPageSize)),
                       OptionalSlice(urlInit, "pagination")),
                OptionalSlice(InitialStateOf(cfg), "pagination"))

\* the initializer of internalSorting
InitialSorting(cfg, urlInit) ==
    IF isPerStateControl(cfg) /\ "sorting" \in DOMAIN cfg THEN cfg.sorting
    ELSE IF isLegacyControlled(cfg) THEN cfg.state.sorting
    ELSE IF HasSlice(InitialStateOf(cfg), "sorting") THEN cfg.initialState.sorting
    ELSE IF HasSlice(urlInit, "sorting") THEN urlInit.sorting
    ELSE createInitialTableState.sorting

\* the initializer of internalFiltering
InitialFiltering(cfg, urlInit) ==
    IF isPerStateControl(cfg) /\ "filtering" \in DOMAIN cfg THEN cfg.filtering
    ELSE IF isLegacyControlled(cfg) THEN cfg.state.filtering
    ELSE IF HasSlice(InitialStateOf(cfg), "filtering") THEN cfg.initialState.filtering
    ELSE IF HasSlice(urlInit, "filtering") THEN urlInit.filtering
    ELSE createInitialTableState.filtering

\* the initializer of internalSelection
InitialSelection(cfg) ==
    IF isLegacyControlled(cfg) THEN cfg.state.selection
    ELSE IF HasSlice(InitialStateOf(cfg), "selection") THEN cfg.initialState.selection
    ELSE createInitialSelectionState({})

\* perState<Slice> !== undefined
HasPerState(slice) == isPerStateControl(stateConfig) /\ slice \in DOMAIN stateConfig

currentPagination ==
    IF isLegacyControlled(stateConfig) THEN stateConfig.state.pagination
    ELSE IF HasPerState("pagination") THEN stateConfig.pagination
    ELSE internalPagination

currentSorting ==
    IF isLegacyControlled(stateConfig) THEN stateConfig.state.sorting
    ELSE IF HasPerState("sorting") THEN stateConfig.sorting
    ELSE internalSorting

currentFiltering ==
    IF isLegacyControlled(stateConfig) THEN stateConfig.state.filtering
    ELSE IF HasPerState("filtering") THEN stateConfig.filtering
    ELSE internalFiltering

currentSelection ==
    IF isLegacyControlled(stateConfig) THEN stateConfig.state.selection
    ELSE internalSelection

currentState ==
    [pagination |-> currentPagination,
     sorting |-> currentSorting,
     filtering |-> currentFiltering,
     selection |-> currentSelection]

filteredData == applyFilters(Rows, currentFiltering, HookColumns, FALSE)

filteredRowCount == Len(filteredData)

\* (variant used to test C32: the server's totalCount is not looked at)
pageCountOfIgnoresTotalCount(pagination, rowCount) ==
    IF "pageCount" \in DOMAIN pagination THEN pagination.pageCount
    ELSE getPageCount(rowCount, pagination.pageSize)

\* the pageCount memo, for a pagination state and a filtered row count
pageCountOf(pagination, rowCount) ==
    IF "pageCount" \in DOMAIN pagination THEN pagination.pageCount
    ELSE IF "totalCount" \in DOMAIN pagination
         THEN getPageCount(pagination.totalCount, pagination.pageSize)
         ELSE getPageCount(rowCount, pagination.pageSize)

pageCount == pageCountOf(currentPagination, filteredRowCount)

\* listener?.(arg): the call, when the listener was supplied
Invoke(listener, arg) ==
    IF listener \in DOMAIN stateConfig THEN Prop(listener, arg) ELSE EmptyObject

\* setState((prev) => update<Slice>(prev, value))
SetStateCall(slice, value) == Prop("setState", [slice |-> slice, value |-> value])

\* what an update<Slice>State call does: the value internal storage holds
\* afterwards and the listeners invoked
updatePaginationState(newPagination) ==
    IF isLegacyControlled(stateConfig)
    THEN [internal |-> internalPagination,
          calls |-> SetStateCall("pagination", newPagination)]
    ELSE IF HasPerState("pagination")
    THEN [internal |-> internalPagination,
          calls |-> Spread(Invoke("onPaginationChange", newPagination),
                           Invoke("onStateChange", Prop("pagination", newPagination)))]
    ELSE [internal |-> newPagination,
          calls |-> IF isLegacyUncontrolled(stateConfig)
                    THEN Invoke("onStateChange",
                                Spread(currentState, Prop("pagination", newPagination)))
                    ELSE EmptyObject]

updateSortingStateWritesInternal(newSorting) ==
    IF isLegacyControlled(stateConfig)
    THEN [internal |-> newSorting,
          calls |-> SetStateCall("sorting", newSorting)]
    ELSE IF HasPerState("sorting")
    THEN [internal |-> newSorting,
          calls |-> Spread(Invoke("onSortingChange", newSorting),
                           Invoke("onStateChange", Prop("sorting", newSorting)))]
    ELSE [internal |-> newSorting,
          calls |-> IF isLegacyUncontrolled(stateConfig)
                    THEN Invoke("onStateChange",
                                Spread(currentState, Prop("sorting", newSorting)))
                    ELSE EmptyObject]

updateSortingState(newSorting) ==
    IF isLegacyControlled(stateConfig)
    THEN [internal |-> internalSorting,
          calls |-> SetStateCall("sorting", newSorting)]
    ELSE IF HasPerState("sorting")
    THEN [internal |-> internalSorting,
          calls |-> Spread(Invoke("onSortingChange", newSorting),
                           Invoke("onStateChange", Prop("sorting", newSorting)))]
    ELSE [internal |-> newSorting,
          calls |-> IF isLegacyUncontrolled(stateConfig)
                    THEN Invoke("onStateChange",
                                Spread(currentState, Prop("sorting", newSorting)))
                    ELSE EmptyObject]

updateFilteringState(newFiltering) ==
    IF isLegacyControlled(stateConfig)
    THEN [internal |-> internalFiltering,
          calls |-> SetStateCall("filtering", newFiltering)]
    ELSE IF HasPerState("filtering")
    THEN [internal |-> internalFiltering,
          calls |-> Spread(Invoke("onFilteringChange", newFiltering),
                           Invoke("onStateChange", Prop("filtering", newFiltering)))]
    ELSE [internal |-> newFiltering,
          calls |-> IF isLegacyUncontrolled(stateConfig)
                    THEN Invoke("onStateChange",
                                Spread(currentState, Prop("filtering", newFiltering)))
                    ELSE EmptyObject]

updateSelectionState(newSelection) ==
    IF isLegacyControlled(stateConfig)
    THEN [internal |-> internalSelection,
          calls |-> SetStateCall("selection", newSelection)]
    ELSE [internal |-> newSelection,
          calls |-> IF isLegacyUncontrolled(stateConfig)
                    THEN Invoke("onStateChange",
                                Spread(currentState, Prop("selection", newSelection)))
                    ELSE EmptyObject]

\* the updater a controlled owner received, applied to its state
ApplyUpdater(prev, call) ==
    IF call.slice = "pagination" THEN updatePagination(prev, call.value)
    ELSE IF call.slice = "sorting" THEN updateSorting(prev, call.value)
    ELSE IF call.slice = "filtering" THEN updateFiltering(prev, call.value)
    ELSE updateSelection(prev, call.value)

\* the effect that copies every supplied slice into internal storage
SyncedInternal(cfg, slice, internal) ==
    IF isPerStateControl(cfg) /\ slice \in DOMAIN cfg THEN cfg[slice] ELSE internal

----------------------------------------------------------------------------
(* Data pipeline of useDataTable: filter, then sort, then paginate *)

\* (variant used to test C15: any flag switches every stage off)
isServerModeAnyFeature(serverMode, feature) ==
    /\ serverMode # UndefV
    /\ \E f \in DOMAIN serverMode : serverMode[f] = TRUE

\* isServerMode(serverMode, feature): serverMode?.[feature] === true
isServerMode(serverMode, feature) ==
    /\ serverMode # UndefV
    /\ feature \in DOMAIN serverMode
    /\ serverMode[feature] = TRUE

\* the array applyFilters returns: the spread copy [...data] or the result
\* of data.filter, a fresh array on every path
applyFiltersRef(filterState, serverMode) ==
    IF serverMode = TRUE THEN "fresh"
    ELSE IF ~isFilterActive(filterState) THEN "fresh"
    ELSE "fresh"

\* the filteredData memo
FilteredDataOf(data, filtering, columns, serverMode) ==
    applyFilters(data, filtering, columns, isServerMode(serverMode, "filtering"))

\* the sortedData memo: the set of lists it can hold
SortedDataOf(filtered, sorting, columns, serverMode) ==
    IF ~Truthy(sorting.columnId) THEN {filtered}
    ELSE applySort(filtered, sorting, columns, isServerMode(serverMode, "sorting"))

\* the paginatedData memo
PaginatedDataOf(sorted, pagination, serverMode) ==
    getPaginatedData(sorted, pagination, isServerMode(serverMode, "pagination"))

----------------------------------------------------------------------------
(* Row selection of useDataTable.  `cfg` holds the options the handlers    *)
(* read: [enabled, mode, initialSelectedRowIds, getRowKey, data], getRowKey *)
(* being "id" (row => row.id) or "none" (not supplied).  A handler is given *)
(* as the selection the table holds after the call: the argument of        *)
(* updateSelectionState, or the selection as it was when the handler        *)
(* returns early.                                                           *)

\* getRowKeysForPage: the keys of paginatedData, in page order
getRowKeysForPage(cfg, paginated) ==
    IF cfg.getRowKey = "none" THEN <<>>
    ELSE [i \in 1..Len(paginated) |-> paginated[i][ID].n]

handleSelectRow(cfg, state, rowId) ==
    IF ~cfg.enabled THEN state.selection
    ELSE IF cfg.mode = "single" THEN createInitialSelectionState({rowId})
    ELSE selectRow(state, rowId).selection

handleDeselectRow(cfg, state, rowId) ==
    IF ~cfg.enabled THEN state.selection
    ELSE deselectRow(state, rowId).selection

\* handleToggleRow, both modes
handleToggleRowIn(cfg, state, rowId) ==
    IF ~cfg.enabled THEN state.selection
    ELSE IF cfg.mode = "single"
         THEN IF isRowSelected(state, rowId)
              THEN createInitialSelectionState({})
              ELSE handleSelectRow(cfg, state, rowId)
         ELSE toggleRowSelection(state, rowId).selection

handleSelectMultiple(cfg, state, rowIds) ==
    IF ~cfg.enabled \/ cfg.mode = "single" THEN state.selection
    ELSE selectRows(state, rowIds).selection

handleDeselectMultiple(cfg, state, rowIds) ==
    IF ~cfg.enabled THEN state.selection
    ELSE deselectRows(state, rowIds).selection

\* (variant used to test C22: selectAll takes the whole collection)
handleSelectAllRows(cfg, state, paginated) ==
    handleSelectMultiple(cfg, state, getRowKeysForPage(cfg, cfg.data))

handleSelectAll(cfg, state, paginated) ==
    IF ~cfg.enabled \/ cfg.mode = "single" THEN state.selection
    ELSE handleSelectMultiple(cfg, state, getRowKeysForPage(cfg, paginated))

\* (variant used to test C23: deselectAll clears the selection)
handleDeselectAllClears(cfg, state, paginated) ==
    IF ~cfg.enabled THEN state.selection
    ELSE createInitialSelectionState({})

handleDeselectAll(cfg, state, paginated) ==
    IF ~cfg.enabled THEN state.selection
    ELSE handleDeselectMultiple(cfg, state, getRowKeysForPage(cfg, paginated))

\* handleClearSelection, for any selection options
handleClearSelectionIn(cfg, state) ==
    IF ~cfg.enabled THEN state.selection
    ELSE clearSelection(state).selection

\* pageRowIds.filter((id) => selectedRowIds.has(id))
selectedPageRowIds(pageRowIds, selectedRowIds) ==
    SelectSeq(pageRowIds, LAMBDA id : id \in selectedRowIds)

\* (variant used to test C24: an empty page counts as all selected)
isAllSelectedEmptyPage(cfg, pageRowIds, selectedRowIds) ==
    /\ cfg.enabled
    /\ \A i \in 1..Len(pageRowIds) : pageRowIds[i] \in selectedRowIds

isAllSelected(cfg, pageRowIds, selectedRowIds) ==
    /\ cfg.enabled
    /\ Len(pageRowIds) > 0
    /\ \A i \in 1..Len(pageRowIds) : pageRowIds[i] \in selectedRowIds

isIndeterminate(cfg, pageRowIds, selectedRowIds) ==
    /\ cfg.enabled
    /\ Len(selectedPageRowIds(pageRowIds, selectedRowIds)) > 0
    /\ Len(selectedPageRowIds(pageRowIds, selectedRowIds)) < Len(pageRowIds)

----------------------------------------------------------------------------
(* Each specification below drives one part of the program; the variables *)
(* of the other parts stay at the idle values given here.                  *)

notSort == <<modeVars, urlVars, hookVars, pipeVars, codecVars, selVars,
             callVars>>
notMode == <<sortVars, urlVars, hookVars, pipeVars, codecVars, selVars,
             callVars>>
notUrl == <<sortVars, modeVars, hookVars, pipeVars, codecVars, selVars,
            callVars>>
notHook == <<sortVars, modeVars, urlVars, pipeVars, codecVars, selVars,
             callVars>>
notPipe == <<sortVars, modeVars, urlVars, hookVars, codecVars, selVars,
             callVars>>
notCodec == <<sortVars, modeVars, urlVars, hookVars, pipeVars, selVars,
              callVars>>
notSel == <<sortVars, modeVars, urlVars, hookVars, pipeVars, codecVars,
            callVars>>
notCall == <<sortVars, modeVars, urlVars, hookVars, pipeVars, codecVars,
             selVars>>

SortIdle ==
    /\ sData = <<>>
    /\ sState = createInitialSortState
    /\ sState0 = createInitialSortState
    /\ sCol = COL_A
    /\ sCount = 0
    /\ sLast = "idle"
    /\ sPrev = createInitialSortState
    /\ sServer = FALSE
    /\ sResult = <<>>

UrlIdle ==
    /\ uState = createInitialTableState
    /\ uTimeoutId = 0
    /\ uTimers = {}
    /\ uNextId = 1
    /\ uNow = 0
    /\ uMounted = FALSE
    /\ uLocation = <<>>
    /\ uChanges = 0
    /\ uLastChange = 0
    /\ uBurst = 0
    /\ uWritesSinceChange = 0
    /\ uLastWrite = [at |-> -1, state |-> createInitialTableState]
    /\ uWritesAfterUnmount = 0

HookIdle ==
    /\ stateConfig = UndefV
    /\ urlSyncEnabled = FALSE
    /\ search = <<>>
    /\ internalPagination = createInitialTableState.pagination
    /\ internalSorting = createInitialTableState.sorting
    /\ internalFiltering = createInitialTableState.filtering
    /\ internalSelection = createInitialTableState.selection
    /\ calls = EmptyObject
    /\ lastOp = "idle"

ModeIdle ==
    /\ mCfg = UndefV
    /\ mMode = "idle"

PipeIdle ==
    /\ pData = <<>>
    /\ pFiltering = createInitialTableState.filtering
    /\ pSorting = createInitialTableState.sorting
    /\ pPagination = createInitialTableState.pagination
    /\ pServerMode = UndefV
    /\ pFiltered = <<>>
    /\ pFilteredRef = "data"
    /\ pSorted = <<>>
    /\ pPaginated = <<>>
    /\ pAgain = <<>>
    /\ pLast = "idle"

CodecIdle ==
    /\ cState = createInitialTableState
    /\ cParams = <<>>
    /\ cConfig = EmptyObject
    /\ cOut = <<>>
    /\ cParamsAfter = <<>>
    /\ cParsed = EmptyObject
    /\ cLast = "idle"

SelIdle ==
    /\ kCfg = [enabled |-> FALSE, mode |-> "multi", initialSelectedRowIds |-> <<>>,
               getRowKey |-> "none", data |-> <<>>]
    /\ kSelection = createInitialTableState.selection
    /\ kPagination = createInitialTableState.pagination
    /\ kOp = "idle"
    /\ kArg = 0
    /\ kPrev = createInitialTableState.selection
    /\ kPrevOp = "idle"
    /\ kPrev2 = createInitialTableState.selection

CallIdle ==
    /\ xArgs = EmptyObject
    /\ xResult = EmptyObject
    /\ xLast = "idle"

----------------------------------------------------------------------------
(* SpecSort: the sort engine applied to bounded inputs *)

\* the cell values a sort key takes in the model
SortVals == {Num(1), Num(2), NullV, UndefV, Str(<<"b">>)}

\* the input lists: record k carries its input position as id
SortInputs ==
    UNION { { [k \in 1..n |-> [p \in {ID, COL_A} |->
                                 IF p = ID THEN Num(k) ELSE vals[k]]] :
              vals \in [1..n -> SortVals] } : n \in 0..MaxLen }

SortColumnIds == {COL_A, COL_X}

SortStates ==
    [columnId : {NULL} \cup SortColumnIds, direction : {NULL, ASC, DESC}]

\* the table of the harness has the one column "a"
SortColumns == <<createColumn(COL_A)>>

InitSort ==
    /\ sData \in SortInputs
    /\ sState0 \in SortStates
    /\ sState = sState0
    /\ sCol \in SortColumnIds
    /\ sCount = 0
    /\ sLast = "init"
    /\ sPrev = sState0
    /\ sServer = FALSE
    /\ sResult = <<>>
    /\ ModeIdle
    /\ UrlIdle
    /\ HookIdle
    /\ PipeIdle
    /\ CodecIdle
    /\ SelIdle
    /\ CallIdle

\* toggleSort(state, sCol)
ToggleSortStep ==
    /\ sCount < MaxToggles
    /\ sPrev' = sState
    /\ sState' = toggleSort(sState, sCol)
    /\ sCount' = sCount + 1
    /\ sLast' = "toggle"
    /\ sResult' = <<>>
    /\ UNCHANGED <<sData, sState0, sCol, sServer>>
    /\ UNCHANGED notSort

\* applySort(sData, state, getValue, undefined, serverMode)
ApplySortStep ==
    /\ sLast # "apply"
    /\ \E serverMode \in BOOLEAN :
         \E r \in applySort(sData, sState, SortColumns, serverMode) :
            /\ sResult' = r
            /\ sServer' = serverMode
    /\ sLast' = "apply"
    /\ UNCHANGED <<sData, sState, sState0, sCol, sCount, sPrev>>
    /\ UNCHANGED notSort

NextSort == ToggleSortStep \/ ApplySortStep

SpecSort == InitSort /\ [][NextSort]_vars

\* ---- claims settled on SpecSort ----

\* C8: toggleSort on the currently sorted column moves asc to desc and desc
\* to unsorted {null, null}; on an unsorted table, or on a column other
\* than the currently sorted one, it yields {that column, asc}, whatever the
\* previous column and direction were.
C8_ToggleSortCycle ==
    sLast = "toggle" =>
        /\ (sPrev.columnId = sCol /\ sPrev.direction = ASC)
              => sState = [columnId |-> sCol, direction |-> DESC]
        /\ (sPrev.columnId = sCol /\ sPrev.direction = DESC)
              => sState = [columnId |-> NULL, direction |-> NULL]
        /\ (~isSortActive(sPrev) \/ sPrev.columnId # sCol)
              => sState = [columnId |-> sCol, direction |-> ASC]

\* a toggle has just taken a column sorted descending to unsorted
C8_Witness ==
    /\ sLast = "toggle"
    /\ sPrev = [columnId |-> sCol, direction |-> DESC]
    /\ sState = createInitialSortState

\* C9 as claimed: from {null, null}, four toggleSort calls on the same
\* column return to {null, null}.
C9_FourTogglesReturn ==
    (sState0 = createInitialSortState /\ sCount = 4)
        => sState = createInitialSortState

\* C9 as amended: from {null, null}, three toggleSort calls on the same
\* column return to {null, null} (none -> asc -> desc -> none); the fourth
\* call starts the cycle again at {column, asc}.
C9_ThreeTogglesReturn ==
    /\ (sState0 = createInitialSortState /\ sCount = 3)
          => sState = createInitialSortState
    /\ (sState0 = createInitialSortState /\ sCount = 4)
          => sState = [columnId |-> sCol, direction |-> ASC]

C9_Witness ==
    /\ sState0 = createInitialSortState
    /\ sCount = 3
    /\ sLast = "toggle"
    /\ sPrev = [columnId |-> sCol, direction |-> DESC]

\* the sort key applySort reads from a record of the harness
SortKey(item) == getValue(SortColumns, item, sState.columnId)

\* C10: for an active sort state and any input list, applySort returns a
\* permutation of the input that is ordered by the comparator and in which
\* records with equal sort keys keep their relative input order; the input
\* list is not reordered.
C10_ApplySortStableOrdered ==
    (sLast = "apply" /\ ~sServer /\ isSortActive(sState)) =>
        /\ Len(sResult) = Len(sData)
        /\ \A k \in 1..Len(sData) : \E i \in 1..Len(sResult) : sResult[i] = sData[k]
        /\ \A i, j \in 1..Len(sResult) :
              i < j => createComparator(sState.direction,
                                        SortKey(sResult[i]), SortKey(sResult[j])) <= 0
        /\ \A i, j \in 1..Len(sResult) :
              (i < j /\ SortKey(sResult[i]) = SortKey(sResult[j]))
                  => sResult[i][ID].n < sResult[j][ID].n
        /\ \A k \in 1..Len(sData) : sData[k][ID] = Num(k)

\* C11: for both directions, asc and desc, applySort with the default
\* comparator places every record whose sort value is null or undefined
\* after every record whose sort value is defined.
C11_MissingSortLast ==
    (sLast = "apply" /\ ~sServer /\ isSortActive(sState)) =>
        \A i, j \in 1..Len(sResult) :
            (IsMissing(SortKey(sResult[i])) /\ ~IsMissing(SortKey(sResult[j])))
                => j < i

----------------------------------------------------------------------------
(* SpecMode: the mode resolution applied to every configuration shape *)

\* every shape of the `state` option: no option at all, or an object with
\* any subset of the keys (the values play no part in the resolution)
ConfigShapes ==
    {UndefV} \cup { [k \in ks |-> TRUE] : ks \in SUBSET StateConfigKeys }

InitMode ==
    /\ mCfg \in ConfigShapes
    /\ mMode = "unresolved"
    /\ SortIdle
    /\ UrlIdle
    /\ HookIdle
    /\ PipeIdle
    /\ CodecIdle
    /\ SelIdle
    /\ CallIdle

\* useDataTable determines the state control mode
ResolveModeStep ==
    /\ mMode = "unresolved"
    /\ mMode' = ResolvedMode(mCfg)
    /\ UNCHANGED mCfg
    /\ UNCHANGED notMode

NextMode == ResolveModeStep

SpecMode == InitMode /\ [][NextMode]_vars

\* C4: every configuration shape resolves to exactly one of the three
\* modes: `state` and `setState` both present gives fully controlled;
\* otherwise a per-field key or callback present with neither `state` nor
\* `initialState` gives per-field control; every other shape, no
\* configuration included, gives fully uncontrolled.
C4_ModeResolution ==
    mMode # "unresolved" =>
        LET has(k) == mCfg # UndefV /\ k \in DOMAIN mCfg
            expected ==
                IF has("state") /\ has("setState") THEN "controlled"
                ELSE IF /\ \E k \in PerStateKeys : has(k)
                        /\ ~has("state")
                        /\ ~has("initialState")
                     THEN "perField"
                     ELSE "uncontrolled"
        IN  /\ mMode = expected
            /\ ~(isLegacyControlled(mCfg) /\ isPerStateControl(mCfg))
            /\ mCfg # UndefV =>
                  Cardinality({f \in {"c", "p", "u"} :
                      \/ f = "c" /\ isLegacyControlled(mCfg)
                      \/ f = "p" /\ isPerStateControl(mCfg)
                      \/ f = "u" /\ isLegacyUncontrolled(mCfg)}) = 1

\* a shape with initialState and a callback has been resolved uncontrolled
C4_Witness ==
    /\ mCfg # UndefV
    /\ DOMAIN mCfg = {"initialState", "onStateChange"}
    /\ mMode = "uncontrolled"

----------------------------------------------------------------------------
(* SpecUrl: the URL effect of a mounted table and its debounced writer.    *)
(* A step of the clock is one tick; a due timeout may fire late.           *)

\* the states currentState moves between
UrlStates ==
    { [createInitialTableState EXCEPT !.pagination.pageIndex = i, !.sorting = so] :
        i \in 0..2,
        so \in {createInitialSortState, [columnId |-> COL_NAME, direction |-> ASC]} }

\* the query strings the location starts with: "" and "?page=1&tab=x"
UrlLocations ==
    { <<>>,
      << <<DEFAULT_PARAM_NAMES.page, <<"1">>>>, <<<<"t", "a", "b">>, <<"x">>>> >> }

\* mount: the effect runs once and schedules the write of the initial state
InitUrl ==
    /\ uState \in UrlStates
    /\ uLocation \in UrlLocations
    /\ uTimeoutId = debounced(0, {}, 1, 0, DebounceMs, uState).timeoutId
    /\ uTimers = debounced(0, {}, 1, 0, DebounceMs, uState).timers
    /\ uNextId = 2
    /\ uNow = 0
    /\ uMounted = TRUE
    /\ uChanges = 0
    /\ uLastChange = 0
    /\ uBurst = 0
    /\ uWritesSinceChange = 0
    /\ uLastWrite = [at |-> -1, state |-> uState]
    /\ uWritesAfterUnmount = 0
    /\ SortIdle
    /\ ModeIdle
    /\ HookIdle
    /\ PipeIdle
    /\ CodecIdle
    /\ SelIdle
    /\ CallIdle

\* currentState changes: the effect's cleanup runs, then the effect calls
\* the debounced writer with the new state
UrlStateChange ==
    /\ uMounted
    /\ uChanges < MaxChanges
    /\ \E s \in UrlStates \ {uState} :
         LET c == EffectCleanup(uTimeoutId, uTimers)
             d == debounced(c.timeoutId, c.timers, uNextId, uNow, DebounceMs, s)
         IN  /\ uState' = s
             /\ uTimeoutId' = d.timeoutId
             /\ uTimers' = d.timers
    /\ uNextId' = uNextId + 1
    /\ uChanges' = uChanges + 1
    /\ uBurst' = IF uChanges > 0 /\ uNow - uLastChange < DebounceMs
                 THEN uBurst + 1 ELSE 1
    /\ uLastChange' = uNow
    /\ uWritesSinceChange' = 0
    /\ UNCHANGED <<uNow, uMounted, uLocation, uLastWrite, uWritesAfterUnmount>>
    /\ UNCHANGED notUrl

\* time passes
UrlTick ==
    /\ uNow < MaxTime
    /\ uNow' = uNow + 1
    /\ UNCHANGED <<uState, uTimeoutId, uTimers, uNextId, uMounted, uLocation,
                   uChanges, uLastChange, uBurst, uWritesSinceChange,
                   uLastWrite, uWritesAfterUnmount>>
    /\ UNCHANGED notUrl

\* a due timeout fires: fn(...args) reads the query string, serializes the
\* state it was scheduled with and writes; then timeoutId = null
UrlTimerFire ==
    /\ \E t \in uTimers :
         /\ t.due <= uNow
         /\ uTimers' = uTimers \ {t}
         /\ uLocation' = serializeStateToUrl(t.args, uLocation, urlSyncConfigRef)
         /\ uLastWrite' = [at |-> uNow, state |-> t.args]
    /\ uTimeoutId' = 0
    /\ uWritesSinceChange' = uWritesSinceChange + 1
    /\ uWritesAfterUnmount' = IF uMounted THEN uWritesAfterUnmount
                              ELSE uWritesAfterUnmount + 1
    /\ UNCHANGED <<uState, uNextId, uNow, uMounted, uChanges, uLastChange, uBurst>>
    /\ UNCHANGED notUrl

\* teardown: the effect's cleanup runs
UrlUnmount ==
    /\ uMounted
    /\ uMounted' = FALSE
    /\ uTimeoutId' = EffectCleanup(uTimeoutId, uTimers).timeoutId
    /\ uTimers' = EffectCleanup(uTimeoutId, uTimers).timers
    /\ UNCHANGED <<uState, uNextId, uNow, uLocation, uChanges, uLastChange,
                   uBurst, uWritesSinceChange, uLastWrite, uWritesAfterUnmount>>
    /\ UNCHANGED notUrl

NextUrl == UrlStateChange \/ UrlTick \/ UrlTimerFire \/ UrlUnmount

SpecUrl == InitUrl /\ [][NextUrl]_vars

\* ---- claims settled on SpecUrl ----

C6_NoWriteAfterTeardown ==
    ~uMounted => (uTimers = {} /\ uWritesAfterUnmount = 0)

\* torn down with the last change still unwritten, and its due time passed
C6_Witness ==
    /\ ~uMounted
    /\ uChanges > 0
    /\ uWritesSinceChange = 0
    /\ uNow > uLastChange + DebounceMs

----------------------------------------------------------------------------
(* Spec: the state coordinator under its mutators.  A mutator step is the  *)
(* handler together with the re-derivation that follows it; the owner of a *)
(* controlled slice answers in a step of its own.                          *)

\* the state a controlling owner starts with
OwnerState == [createInitialTableState EXCEPT !.pagination.pageSize = 2]

\* options.pageSize
InitialPageSizes == {2}

\* initialState overrides of the uncontrolled mode
InitialStates ==
    { EmptyObject,
      [pagination |-> [pageIndex |-> 1]],
      [sorting |-> [columnId |-> COL_NAME, direction |-> DESC]] }

Slices == {"pagination", "sorting", "filtering", "selection"}

\* the per-field listener of a slice (selection has none)
OnChange(slice) ==
    IF slice = "pagination" THEN "onPaginationChange"
    ELSE IF slice = "sorting" THEN "onSortingChange"
    ELSE IF slice = "filtering" THEN "onFilteringChange"
    ELSE "none"

PerFieldListeners ==
    {"onPaginationChange", "onSortingChange", "onFilteringChange", "onStateChange"}

\* the `state` options of the model
\* the per-field options: no slice, one slice or every slice supplied,
\* with no listener, the aggregate listener or every listener
PerFieldConfigs ==
    {[k \in supplied \cup listeners |->
         IF k \in supplied THEN OwnerState[k] ELSE "fn"] :
       supplied \in {{}, {"sorting"}, {"pagination", "sorting", "filtering"}},
       listeners \in {{}, {"onStateChange"}, PerFieldListeners}}

\* the `state` options of the model
HookConfigs ==
    {UndefV}
    \cup {[state |-> OwnerState, setState |-> "fn"]}
    \cup {Prop("initialState", EmptyObject)}
    \cup {[initialState |-> s, onStateChange |-> "fn"] : s \in InitialStates}
    \cup {c \in PerFieldConfigs : DOMAIN c # {}}

\* the options that are combined with a query string to seed from
UrlSeededConfigs ==
    {UndefV,
     [initialState |-> [pagination |-> [pageIndex |-> 1]], onStateChange |-> "fn"],
     [k \in {"sorting"} \cup PerFieldListeners |->
         IF k = "sorting" THEN OwnerState[k] ELSE "fn"]}

\* the query strings at construction: "?page=9", "?sort=name",
\* "?sort=name&sortDir=DESC&q=a"
HookQueries ==
    { << <<DEFAULT_PARAM_NAMES.page, <<"9">>>> >>,
      << <<DEFAULT_PARAM_NAMES.sortColumn, COL_NAME>> >>,
      << <<DEFAULT_PARAM_NAMES.sortColumn, COL_NAME>>,
         <<DEFAULT_PARAM_NAMES.sortDir, <<"D", "E", "S", "C">>>>,
         <<DEFAULT_PARAM_NAMES.globalFilter, <<"a">>>> >> }

\* the options and the location a table is constructed with
HookInputs ==
    {[config |-> c, urlSyncEnabled |-> FALSE, search |-> <<>>] : c \in HookConfigs}
    \cup {[config |-> c, urlSyncEnabled |-> TRUE, search |-> q] :
            c \in UrlSeededConfigs, q \in HookQueries}
    \cup {[config |-> UndefV, urlSyncEnabled |-> FALSE, search |-> q] :
            q \in HookQueries}

\* arguments of the mutators
SetSortColumns == {NULL, COL_NAME}
SetSortDirections == {NULL, DESC}
GoToPageInputs == {0, 2}
PageSizeInputs == {1, 2}
GlobalFilterInputs == {<<>>, <<"a">>, <<"z">>}
ColumnFilterInputs == {<<"a">>}
RowIds == {1}

\* construction: every useState initializer runs
Init ==
    /\ \E input \in HookInputs :
         /\ stateConfig = input.config
         /\ urlSyncEnabled = input.urlSyncEnabled
         /\ search = input.search
    /\ \E initialPageSize \in InitialPageSizes :
         internalPagination =
             InitialPagination(stateConfig, initialPageSize,
                               urlInitialState(urlSyncEnabled, search))
    /\ internalSorting =
           InitialSorting(stateConfig, urlInitialState(urlSyncEnabled, search))
    /\ internalFiltering =
           InitialFiltering(stateConfig, urlInitialState(urlSyncEnabled, search))
    /\ internalSelection = InitialSelection(stateConfig)
    /\ calls = EmptyObject
    /\ lastOp = "mount"
    /\ SortIdle
    /\ ModeIdle
    /\ UrlIdle
    /\ PipeIdle
    /\ CodecIdle
    /\ SelIdle
    /\ CallIdle

\* the tail every sorting mutator shares: updateSortingState(newSorting)
CommitSorting(newSorting) ==
    /\ internalSorting' = updateSortingState(newSorting).internal
    /\ calls' = updateSortingState(newSorting).calls
    /\ lastOp' = "sorting"
    /\ UNCHANGED <<stateConfig, urlSyncEnabled, search, internalPagination,
                   internalFiltering, internalSelection>>
    /\ UNCHANGED notHook

CommitPagination(newPagination) ==
    /\ internalPagination' = updatePaginationState(newPagination).internal
    /\ calls' = updatePaginationState(newPagination).calls
    /\ lastOp' = "pagination"
    /\ UNCHANGED <<stateConfig, urlSyncEnabled, search, internalSorting,
                   internalFiltering, internalSelection>>
    /\ UNCHANGED notHook

CommitFiltering(newFiltering) ==
    /\ internalFiltering' = updateFilteringState(newFiltering).internal
    /\ calls' = updateFilteringState(newFiltering).calls
    /\ lastOp' = "filtering"
    /\ UNCHANGED <<stateConfig, urlSyncEnabled, search, internalPagination,
                   internalSorting, internalSelection>>
    /\ UNCHANGED notHook

CommitSelection(newSelection) ==
    /\ internalSelection' = updateSelectionState(newSelection).internal
    /\ calls' = updateSelectionState(newSelection).calls
    /\ lastOp' = "selection"
    /\ UNCHANGED <<stateConfig, urlSyncEnabled, search, internalPagination,
                   internalSorting, internalFiltering>>
    /\ UNCHANGED notHook

handleToggleSort ==
    \E columnId \in {COL_NAME} :
        CommitSorting(toggleSort(currentSorting, columnId))

handleSetSort ==
    \E columnId \in SetSortColumns, direction \in SetSortDirections :
        CommitSorting(setSort(columnId, direction))

handleClearSort == CommitSorting(clearSort)

handleNextPage ==
    CommitPagination(goToNextPage(currentPagination, pageCount))

handlePreviousPage ==
    CommitPagination(goToPreviousPage(currentPagination, pageCount))

handleGoToPage ==
    \E pageIndex \in GoToPageInputs :
        CommitPagination(goToPage(currentPagination, pageIndex, pageCount))

handleSetPageSize ==
    \E pageSize \in PageSizeInputs :
        CommitPagination(setPageSize(currentPagination, pageSize,
                                     Num(filteredRowCount)))

handleSetGlobalFilter ==
    \E filter \in GlobalFilterInputs :
        CommitFiltering(setGlobalFilter(filter))

handleSetColumnFilter ==
    \E filter \in ColumnFilterInputs :
        CommitFiltering(setColumnFilter(currentFiltering, COL_NAME, filter))

handleClearColumnFilter ==
    CommitFiltering(clearColumnFilter(currentFiltering, COL_NAME))

handleClearAllFilters == CommitFiltering(clearAllFilters)

handleToggleRow ==
    /\ selectionEnabled
    /\ selectionMode # "single"
    /\ \E rowId \in RowIds :
         CommitSelection(toggleRowSelection(currentState, rowId).selection)

handleClearSelection ==
    /\ selectionEnabled
    /\ CommitSelection(clearSelection(currentState).selection)

\* the owner of the fully controlled state runs the updater it was handed
OwnerSetState ==
    /\ isLegacyControlled(stateConfig)
    /\ "setState" \in DOMAIN calls
    /\ stateConfig' =
           [stateConfig EXCEPT !.state = ApplyUpdater(@, calls.setState)]
    /\ calls' = EmptyObject
    /\ lastOp' = "owner"
    /\ UNCHANGED <<urlSyncEnabled, search, internalPagination, internalSorting,
                   internalFiltering, internalSelection>>
    /\ UNCHANGED notHook

\* the owner of a supplied slice stores the value a listener reported and
\* hands it back; the sync effect then copies the supplied slices into
\* internal storage
OwnerSetSlice ==
    /\ HasPerState(lastOp)
    /\ \E l \in {OnChange(lastOp), "onStateChange"} :
         /\ l \in DOMAIN calls
         /\ stateConfig' =
                [stateConfig EXCEPT ![lastOp] =
                    IF l = "onStateChange" THEN calls[l][lastOp] ELSE calls[l]]
    /\ internalPagination' =
           SyncedInternal(stateConfig', "pagination", internalPagination)
    /\ internalSorting' = SyncedInternal(stateConfig', "sorting", internalSorting)
    /\ internalFiltering' =
           SyncedInternal(stateConfig', "filtering", internalFiltering)
    /\ calls' = EmptyObject
    /\ lastOp' = "owner"
    /\ UNCHANGED <<urlSyncEnabled, search, internalSelection>>
    /\ UNCHANGED notHook

Next ==
    \/ handleToggleSort
    \/ handleSetSort
    \/ handleClearSort
    \/ handleNextPage
    \/ handlePreviousPage
    \/ handleGoToPage
    \/ handleSetPageSize
    \/ handleSetGlobalFilter
    \/ handleSetColumnFilter
    \/ handleClearColumnFilter
    \/ handleClearAllFilters
    \/ handleToggleRow
    \/ handleClearSelection
    \/ OwnerSetState
    \/ OwnerSetSlice

Spec == Init /\ [][Next]_vars

\* ---- claims settled on Spec ----

\* C1: in every state reachable through the mutators the exposed pagination
\* satisfies 0 <= pageIndex < pageCount, or pageIndex = 0 when pageCount is
\* 0, including after a filter change shrinks the filtered row count and in
\* the state seeded from the URL or from initial overrides.
C1_PageIndexInRange ==
    IF pageCount = 0 THEN currentPagination.pageIndex = 0
    ELSE 0 <= currentPagination.pageIndex /\ currentPagination.pageIndex < pageCount

\* the listeners the caller supplied that cover a slice
SuppliedListeners(slice) ==
    IF stateConfig = UndefV THEN {}
    ELSE {OnChange(slice), "onStateChange"} \cap DOMAIN stateConfig

\* C2: every mutation of a slice invokes every change listener the caller
\* supplied that covers that slice (the aggregate onStateChange and the
\* per-field on<Field>Change), in all three ownership modes, the slice being
\* supplied or tracked internally.
C2_NoListenerSkipped ==
    lastOp \in Slices => SuppliedListeners(lastOp) \subseteq DOMAIN calls

\* whether a slice has a controlling owner
Owned(slice) ==
    \/ isLegacyControlled(stateConfig)
    \/ slice # "selection" /\ HasPerState(slice)

Internal(slice) ==
    IF slice = "pagination" THEN internalPagination
    ELSE IF slice = "sorting" THEN internalSorting
    ELSE IF slice = "filtering" THEN internalFiltering
    ELSE internalSelection

\* the value the owner supplies for a slice it owns
Supplied(slice) ==
    IF isLegacyControlled(stateConfig) THEN stateConfig.state[slice]
    ELSE stateConfig[slice]

\* C3: for a slice that has a controlling owner (every slice in fully
\* controlled mode, a supplied slice in per-field mode) a mutator call never
\* writes to internal storage: it only calls the owner's setter or
\* listeners, and the exposed value of the slice stays the supplied one.
C3_NoInternalWriteWhenOwned ==
    [][\A slice \in Slices :
          (lastOp' = slice /\ Owned(slice)) =>
              /\ Internal(slice)' = Internal(slice)
              /\ Supplied(slice)' = Supplied(slice)
              /\ currentState'[slice] = Supplied(slice)
              /\ DOMAIN calls' \subseteq
                     {"setState", "onStateChange", OnChange(slice)}]_vars

\* a sorting mutator ran on a supplied sorting slice with a new value, and
\* the table still exposes the supplied one
C3_Witness ==
    /\ HasPerState("sorting")
    /\ lastOp = "sorting"
    /\ "onSortingChange" \in DOMAIN calls
    /\ calls.onSortingChange # stateConfig.sorting
    /\ currentSorting = stateConfig.sorting
    /\ internalSorting = stateConfig.sorting

\* C7: in every reachable sort state (after any sequence of sorting.toggle,
\* sorting.set and sorting.clear calls, and after seeding the sort from the
\* URL) columnId is null if and only if direction is null.
C7_SortNullIff ==
    (currentSorting.columnId = NULL) <=> (currentSorting.direction = NULL)

----------------------------------------------------------------------------
(* SpecPipe: the data pipeline of the hook applied to bounded inputs *)

\* the values of the `name` field
PipeNames == {Str(<<"a", "b">>), Str(<<"B">>), NullV, UndefV}

\* the `data` lists: record k carries its input position as id
PipeData ==
    UNION { { [k \in 1..n |-> [p \in {ID, COL_NAME} |->
                                 IF p = ID THEN Num(k) ELSE names[k]]] :
              names \in [1..n -> PipeNames] } : n \in 0..MaxRows }

PipeGlobalFilters == {<<>>, <<" ">>, <<"b">>, <<"1">>}

PipeColumnFilters ==
    { EmptyObject,
      Prop(COL_NAME, <<>>),
      Prop(COL_NAME, <<" ">>),
      Prop(COL_NAME, <<"B", " ">>),
      Spread(Prop(COL_NAME, <<"a">>), Prop(ID, <<"1">>)),
      Spread(Prop(COL_NAME, <<"b">>), Prop(ID, <<>>)) }

PipeFilterings == [globalFilter : PipeGlobalFilters, columnFilters : PipeColumnFilters]

PipeSortings ==
    { createInitialSortState, setSort(COL_NAME, ASC), setSort(COL_NAME, DESC),
      setSort(COL_NAME, NULL) }

PipePaginations ==
    { [pageIndex |-> 0, pageSize |-> 1], [pageIndex |-> 1, pageSize |-> 1],
      [pageIndex |-> 0, pageSize |-> 2] }

PipeServerModes ==
    { UndefV,
      Prop("filtering", TRUE),
      Prop("sorting", TRUE),
      Spread(Prop("pagination", TRUE), Prop("filtering", FALSE)),
      [f \in {"pagination", "sorting", "filtering"} |-> TRUE] }

InitPipe ==
    /\ pData \in PipeData
    /\ pFiltering \in PipeFilterings
    /\ pSorting \in PipeSortings
    /\ pPagination \in PipePaginations
    /\ pServerMode \in PipeServerModes
    /\ pFiltered = <<>>
    /\ pFilteredRef = "data"
    /\ pSorted = <<>>
    /\ pPaginated = <<>>
    /\ pAgain = <<>>
    /\ pLast = "init"
    /\ SortIdle
    /\ ModeIdle
    /\ UrlIdle
    /\ HookIdle
    /\ CodecIdle
    /\ SelIdle
    /\ CallIdle

\* one render: the three memos, each computed from the one before
RenderStep ==
    /\ pLast = "init"
    /\ LET filtered == FilteredDataOf(pData, pFiltering, HookColumns, pServerMode)
       IN  /\ pFiltered' = filtered
           /\ pFilteredRef' =
                 applyFiltersRef(pFiltering, isServerMode(pServerMode, "filtering"))
           /\ \E sorted \in SortedDataOf(filtered, pSorting, HookColumns, pServerMode) :
                 /\ pSorted' = sorted
                 /\ pPaginated' = PaginatedDataOf(sorted, pPagination, pServerMode)
    /\ pLast' = "render"
    /\ UNCHANGED <<pData, pFiltering, pSorting, pPagination, pServerMode, pAgain>>
    /\ UNCHANGED notPipe

\* applyFilters, applySort and getPaginatedData applied to paginatedData,
\* with the state and the flags of the render
ReapplyStep ==
    /\ pLast = "render"
    /\ \E sorted \in applySort(applyFilters(pPaginated, pFiltering, HookColumns,
                                            isServerMode(pServerMode, "filtering")),
                                pSorting, HookColumns,
                                isServerMode(pServerMode, "sorting")) :
          pAgain' = getPaginatedData(sorted, pPagination,
                                     isServerMode(pServerMode, "pagination"))
    /\ pLast' = "reapply"
    /\ UNCHANGED <<pData, pFiltering, pSorting, pPagination, pServerMode,
                   pFiltered, pFilteredRef, pSorted, pPaginated>>
    /\ UNCHANGED notPipe

NextPipe == RenderStep \/ ReapplyStep

SpecPipe == InitPipe /\ [][NextPipe]_vars

\* ---- claims settled on SpecPipe ----

\* the flag of a stage, read from the option as given
PipeFlag(feature) ==
    IF pServerMode = UndefV THEN FALSE
    ELSE IF feature \in DOMAIN pServerMode THEN pServerMode[feature] ELSE FALSE

\* the filter stage ran, on the client
ClientFiltered == pLast # "init" /\ ~PipeFlag("filtering")

\* no column filter of the state has anything but white space
NoColumnFilter ==
    \A c \in DOMAIN pFiltering.columnFilters : trim(pFiltering.columnFilters[c]) = <<>>

\* C12: for every filter state with no active filter (global filter blank
\* and every column filter blank) applyFilters returns a new list with the
\* same records in the same order as the input; no record is dropped, added
\* or moved.
C12_InactiveFilterCopies ==
    (ClientFiltered /\ trim(pFiltering.globalFilter) = <<>> /\ NoColumnFilter) =>
        /\ pFiltered = pData
        /\ pFilteredRef = "fresh"

\* a blank global filter and a blank column filter were applied to two records
C12_Witness ==
    /\ ClientFiltered
    /\ pFiltering = [globalFilter |-> <<" ">>, columnFilters |-> Prop(COL_NAME, <<>>)]
    /\ Len(pData) = 2
    /\ pFiltered = pData

\* C13: when the global filter is non-blank and no column filter is active
\* (columnFilters is empty or holds only blank strings), the filtered view
\* contains exactly the records that have at least one field value matching
\* the global filter, in input order.
C13_GlobalFilterAnyField ==
    (ClientFiltered /\ trim(pFiltering.globalFilter) # <<>> /\ NoColumnFilter) =>
        pFiltered = SelectSeq(pData, LAMBDA item :
                        \E p \in DOMAIN item :
                            defaultMatch(item[p], pFiltering.globalFilter))

\* C14: when at least one column filter is non-blank, applyFilters keeps
\* exactly the records for which every non-blank column filter matches the
\* value from that column's accessor (AND-combined), as a subsequence of the
\* input in input order, and the value of the global filter has no effect on
\* the result.
C14_ColumnFiltersAnd ==
    (ClientFiltered /\ ~NoColumnFilter) =>
        pFiltered = SelectSeq(pData, LAMBDA item :
                        \A c \in DOMAIN pFiltering.columnFilters :
                            trim(pFiltering.columnFilters[c]) # <<>> =>
                                defaultMatch(getValue(HookColumns, item, c),
                                             pFiltering.columnFilters[c]))

\* two column filters and a global filter that matches no field of the
\* record the column filters keep
C14_Witness ==
    /\ ClientFiltered
    /\ pFiltering.globalFilter = <<"1">>
    /\ pFiltering.columnFilters = Spread(Prop(COL_NAME, <<"b">>), Prop(ID, <<>>))
    /\ Len(pData) = 2
    /\ pData[1][COL_NAME] = NullV
    /\ pData[2][COL_NAME] = Str(<<"B">>)
    /\ pFiltered = <<pData[2]>>

\* C15: the exposed views satisfy filteredData = filter(data), sortedData =
\* sort(filteredData), paginatedData = page(sortedData), in that order; a
\* stage whose server-mode flag is true returns its input unchanged in
\* content and order, so with all three flags set paginatedData equals the
\* input data whatever the sort, filter and pagination state.
C15_PipelineOrder ==
    pLast # "init" =>
        /\ pFiltered = IF PipeFlag("filtering") THEN pData
                       ELSE applyFilters(pData, pFiltering, HookColumns, FALSE)
        /\ pSorted \in IF PipeFlag("sorting") THEN {pFiltered}
                        ELSE applySort(pFiltered, pSorting, HookColumns, FALSE)
        /\ pPaginated = IF PipeFlag("pagination") THEN pSorted
                        ELSE getPaginatedData(pSorted, pPagination, FALSE)
        /\ (PipeFlag("filtering") /\ PipeFlag("sorting") /\ PipeFlag("pagination"))
              => pPaginated = pData

\* only the filter stage is the server's: the client sorted and paged two
\* unfiltered records under a filter that matches neither
C15_Witness ==
    /\ pLast = "render"
    /\ pServerMode = Prop("filtering", TRUE)
    /\ pFiltering.columnFilters = Spread(Prop(COL_NAME, <<"a">>), Prop(ID, <<"1">>))
    /\ pSorting = setSort(COL_NAME, DESC)
    /\ pPagination = [pageIndex |-> 0, pageSize |-> 1]
    /\ Len(pData) = 2
    /\ pData[1][COL_NAME] = Str(<<"B">>)
    /\ pData[2][COL_NAME] = Str(<<"B">>)
    /\ pFiltered = pData
    /\ pPaginated = <<pData[1]>>

MixedMissingKeys ==
    /\ \E i \in 1..Len(pFiltered) : pFiltered[i][COL_NAME] = NullV
    /\ \E i \in 1..Len(pFiltered) : pFiltered[i][COL_NAME] = UndefV

----------------------------------------------------------------------------
(* SpecCodec: serializeStateToUrl and parseStateFromUrl on bounded inputs *)

CodecPaginations ==
    { [pageIndex |-> 0, pageSize |-> 10], [pageIndex |-> 2, pageSize |-> 10],
      [pageIndex |-> 1, pageSize |-> 5] }

CodecSortings ==
    { createInitialSortState, setSort(COL_NAME, ASC), setSort(COL_NAME, NULL),
      setSort(NULL, DESC) }

CodecFilterings ==
    [globalFilter : {<<>>, <<"a">>},
     columnFilters : { EmptyObject,
                       Prop(COL_NAME, <<"a">>),
                       Spread(Prop(COL_NAME, <<>>), Prop(ID, <<"1">>)) }]

\* the table states handed to serializeStateToUrl
CodecStates ==
    { [createInitialTableState EXCEPT !.pagination = pg, !.sorting = so,
                                      !.filtering = fi] :
        pg \in CodecPaginations, so \in CodecSortings, fi \in CodecFilterings }

\* the pairs of the incoming query string: the table's own parameters with
\* values the state does not have, and two parameters of the host page
CodecPairs ==
    { <<DEFAULT_PARAM_NAMES.page, <<"9">>>>,
      <<DEFAULT_PARAM_NAMES.sortColumn, ID>>,
      <<DEFAULT_PARAM_NAMES.sortDir, DESC>>,
      <<DEFAULT_PARAM_NAMES.columnFilterPrefix \o ID, <<"x">>>>,
      <<DEFAULT_PARAM_NAMES.columnFilterPrefix \o COL_NAME, <<"y">>>>,
      <<<<"u", "t", "m">>, <<"1">>>>,
      <<<<"t", "a", "b">>, <<"2">>>> }

CodecParams == UNION { [1..n -> CodecPairs] : n \in 0..MaxParams }

\* the UrlSyncConfig: all defaults, sorting not synced, a custom page name
CodecConfigs ==
    { urlSyncConfigRef,
      [urlSyncConfigRef EXCEPT !.features = Prop("sorting", FALSE)],
      [urlSyncConfigRef EXCEPT !.paramNames = Prop("page", <<"p">>)] }

InitCodec ==
    /\ cState \in CodecStates
    /\ cParams \in CodecParams
    /\ cConfig \in CodecConfigs
    /\ cOut = <<>>
    /\ cParamsAfter = cParams
    /\ cParsed = EmptyObject
    /\ cLast = "init"
    /\ SortIdle
    /\ ModeIdle
    /\ UrlIdle
    /\ HookIdle
    /\ PipeIdle
    /\ SelIdle
    /\ CallIdle

\* serializeStateToUrl(cState, cParams, cConfig): the function copies the
\* collection it is handed (new URLSearchParams(currentParams)) and writes
\* to the copy only
SerializeStep ==
    /\ cLast = "init"
    /\ cOut' = serializeStateToUrl(cState, cParams, cConfig)
    /\ cParamsAfter' = cParams
    /\ cLast' = "serialize"
    /\ UNCHANGED <<cState, cParams, cConfig, cParsed>>
    /\ UNCHANGED notCodec

\* parseStateFromUrl(cOut, cConfig)
ParseStep ==
    /\ cLast = "serialize"
    /\ cParsed' = parseStateFromUrl(cOut, cConfig)
    /\ cLast' = "parse"
    /\ UNCHANGED <<cState, cParams, cConfig, cOut, cParamsAfter>>
    /\ UNCHANGED notCodec

NextCodec == SerializeStep \/ ParseStep

SpecCodec == InitCodec /\ [][NextCodec]_vars

\* ---- claims settled on SpecCodec ----

\* whether the configuration syncs the feature
Synced(feature) == FeatureOn(FeaturesOf(cConfig), feature)

\* the column filters of a state that are not the empty string
NonEmptyFilters(columnFilters) ==
    [c \in {k \in DOMAIN columnFilters : columnFilters[k] # <<>>} |-> columnFilters[c]]

\* the parsed state has the field and the field has the value
ParsedField(slice, field, value) ==
    /\ slice \in DOMAIN cParsed
    /\ field \in DOMAIN cParsed[slice]
    /\ cParsed[slice][field] = value

\* C17: for every table state, parseStateFromUrl(serializeStateToUrl(state,
\* params, config), config) yields exactly the state's value for every
\* pagination, sorting and filtering field that is not at its default
\* (pageIndex other than 0, pageSize other than 10, sort column and
\* direction, non-empty global filter, non-empty column filters).  Checked
\* for the features the configuration syncs.
C17_RoundTrip ==
    cLast = "parse" =>
        /\ (Synced("pagination") /\ cState.pagination.pageIndex # 0)
              => ParsedField("pagination", "pageIndex", cState.pagination.pageIndex)
        /\ (Synced("pagination") /\ cState.pagination.pageSize # 10)
              => ParsedField("pagination", "pageSize", cState.pagination.pageSize)
        /\ (Synced("sorting") /\ cState.sorting.columnId # NULL)
              => ParsedField("sorting", "columnId", cState.sorting.columnId)
        /\ (Synced("sorting") /\ cState.sorting.direction # NULL)
              => ParsedField("sorting", "direction", cState.sorting.direction)
        /\ (Synced("filtering") /\ cState.filtering.globalFilter # <<>>)
              => ParsedField("filtering", "globalFilter", cState.filtering.globalFilter)
        /\ (Synced("filtering")
               /\ DOMAIN NonEmptyFilters(cState.filtering.columnFilters) # {})
              => ParsedField("filtering", "columnFilters",
                             NonEmptyFilters(cState.filtering.columnFilters))

\* C18: after serializeStateToUrl the result contains a column-filter
\* parameter (prefix + columnId) only for columns that have a non-empty
\* filter in the current state: every column-filter parameter present in the
\* incoming query string but absent from the current filter state is
\* removed, however many such parameters the incoming query string holds.
C18_NoStaleColumnFilter ==
    (cLast # "init" /\ Synced("filtering")) =>
        \A i \in 1..Len(cOut) :
            startsWith(cOut[i][1], ParamNamesOf(cConfig).columnFilterPrefix) =>
                \E c \in DOMAIN NonEmptyFilters(cState.filtering.columnFilters) :
                    /\ cOut[i][1] = ParamNamesOf(cConfig).columnFilterPrefix \o c
                    /\ cOut[i][2] = cState.filtering.columnFilters[c]

\* C19: serializeStateToUrl leaves no page parameter when pageIndex is 0, no
\* pageSize parameter when pageSize is 10, and neither a sort nor a sortDir
\* parameter when sorting is inactive (columnId or direction null),
\* removing any such parameter already present in the incoming query
\* string.  Checked for the features the configuration syncs.
C19_DefaultsOmitted ==
    cLast # "init" =>
        /\ (Synced("pagination") /\ cState.pagination.pageIndex = 0)
              => ParamsGet(cOut, ParamNamesOf(cConfig).page) = NULL
        /\ (Synced("pagination") /\ cState.pagination.pageSize = 10)
              => ParamsGet(cOut, ParamNamesOf(cConfig).pageSize) = NULL
        /\ (Synced("sorting")
               /\ (cState.sorting.columnId = NULL \/ cState.sorting.direction = NULL))
              => /\ ParamsGet(cOut, ParamNamesOf(cConfig).sortColumn) = NULL
                 /\ ParamsGet(cOut, ParamNamesOf(cConfig).sortDir) = NULL

\* the pairs whose key is none of the configured parameter names and does
\* not start with the column-filter prefix
Unrelated(params) ==
    LET names == ParamNamesOf(cConfig)
    IN  SelectSeq(params, LAMBDA pair :
            /\ pair[1] \notin {names.page, names.pageSize, names.sortColumn,
                                names.sortDir, names.globalFilter}
            /\ ~startsWith(pair[1], names.columnFilterPrefix))

\* C20: serializeStateToUrl leaves unchanged every incoming query parameter
\* whose key is none of the configured parameter names and does not start
\* with the column-filter prefix (same key, value and relative order), and
\* it does not modify the parameter collection it was given.
C20_UnrelatedKept ==
    cLast # "init" =>
        /\ Unrelated(cOut) = Unrelated(cParams)
        /\ cParamsAfter = cParams

\* a state with nothing at its default was written over the two parameters
\* of the host page
C20_Witness ==
    /\ cLast = "serialize"
    /\ cConfig = urlSyncConfigRef
    /\ cParams = << <<<<"t", "a", "b">>, <<"2">>>>, <<<<"u", "t", "m">>, <<"1">>>> >>
    /\ cState.pagination = [pageIndex |-> 1, pageSize |-> 5]
    /\ cState.sorting = setSort(COL_NAME, ASC)
    /\ cState.filtering = [globalFilter |-> <<"a">>,
                           columnFilters |-> Prop(COL_NAME, <<"a">>)]
    /\ Len(cOut) = 8
    /\ SubSeq(cOut, 1, 2) = cParams

----------------------------------------------------------------------------
(* SpecSel: row selection of an uncontrolled table over the three Rows (or *)
(* no row), two to a page, unfiltered and unsorted                          *)

SelConfigs ==
    { [enabled |-> TRUE, mode |-> m, initialSelectedRowIds |-> ids,
       getRowKey |-> "id", data |-> Rows] :
        m \in {"single", "multi"}, ids \in {<<>>, <<1, 2>>} }
    \cup { [enabled |-> FALSE, mode |-> "multi", initialSelectedRowIds |-> <<1>>,
            getRowKey |-> "id", data |-> Rows],
           [enabled |-> TRUE, mode |-> "multi", initialSelectedRowIds |-> <<>>,
            getRowKey |-> "none", data |-> Rows],
           [enabled |-> TRUE, mode |-> "multi", initialSelectedRowIds |-> <<1, 2>>,
            getRowKey |-> "id", data |-> <<>>] }

\* the row ids handed to select, deselect and toggle
SelRowIds == {1, 3}

\* the arrays handed to selectMultiple and deselectMultiple
SelRowIdLists == {<<1, 3>>}

\* currentState, as far as the selection handlers read it
SelState == [selection |-> kSelection, pagination |-> kPagination]

\* paginatedData of the table
SelPage == getPaginatedData(kCfg.data, kPagination, FALSE)

InitSel ==
    /\ kCfg \in SelConfigs
    /\ kSelection = createInitialSelectionState(Elements(kCfg.initialSelectedRowIds))
    /\ kPagination = [pageIndex |-> 0, pageSize |-> 2]
    /\ kOp = "mount"
    /\ kArg = 0
    /\ kPrev = createInitialTableState.selection
    /\ kPrevOp = "idle"
    /\ kPrev2 = createInitialTableState.selection
    /\ SortIdle
    /\ ModeIdle
    /\ UrlIdle
    /\ HookIdle
    /\ PipeIdle
    /\ CodecIdle
    /\ CallIdle

\* the bookkeeping every selection call shares
SelCall(op, arg, newSelection) ==
    /\ kSelection' = newSelection
    /\ kOp' = op
    /\ kArg' = arg
    /\ kPrev' = kSelection
    /\ kPrevOp' = kOp
    /\ kPrev2' = kPrev
    /\ UNCHANGED <<kCfg, kPagination>>
    /\ UNCHANGED notSel

SelSelect ==
    \E rowId \in SelRowIds :
        SelCall("select", rowId, handleSelectRow(kCfg, SelState, rowId))

SelDeselect ==
    \E rowId \in SelRowIds :
        SelCall("deselect", rowId, handleDeselectRow(kCfg, SelState, rowId))

SelToggle ==
    \E rowId \in SelRowIds :
        SelCall("toggle", rowId, handleToggleRowIn(kCfg, SelState, rowId))

SelSelectMultiple ==
    \E rowIds \in SelRowIdLists :
        SelCall("selectMultiple", 0, handleSelectMultiple(kCfg, SelState, rowIds))

SelDeselectMultiple ==
    \E rowIds \in SelRowIdLists :
        SelCall("deselectMultiple", 0, handleDeselectMultiple(kCfg, SelState, rowIds))

SelSelectAll ==
    SelCall("selectAll", 0, handleSelectAll(kCfg, SelState, SelPage))

SelDeselectAll ==
    SelCall("deselectAll", 0, handleDeselectAll(kCfg, SelState, SelPage))

SelClear ==
    SelCall("clear", 0, handleClearSelectionIn(kCfg, SelState))

\* pagination.goToPage(pageIndex): the selection is not touched
SelGoToPage ==
    /\ \E pageIndex \in {0, 1} :
          /\ pageIndex # kPagination.pageIndex
          /\ kPagination' = goToPage(kPagination, pageIndex,
                                       getPageCount(Len(kCfg.data),
                                                    kPagination.pageSize))
    /\ kOp' = "goToPage"
    /\ kArg' = 0
    /\ kPrev' = kSelection
    /\ kPrevOp' = kOp
    /\ kPrev2' = kPrev
    /\ UNCHANGED <<kCfg, kSelection>>
    /\ UNCHANGED notSel

NextSel ==
    \/ SelSelect
    \/ SelDeselect
    \/ SelToggle
    \/ SelSelectMultiple
    \/ SelDeselectMultiple
    \/ SelSelectAll
    \/ SelDeselectAll
    \/ SelClear
    \/ SelGoToPage

SpecSel == InitSel /\ [][NextSel]_vars

\* ---- claims settled on SpecSel ----

\* the row ids of the rows on the current page
PageIds == {SelPage[i][ID].n : i \in 1..Len(SelPage)}

\* C21: with selection mode `single`, in every reachable state (the initial
\* one seeded from initialSelectedRowIds and any state after a sequence of
\* select, deselect, toggle, selectMultiple, selectAll, deselectAll and clear
\* calls) the selection holds at most one row id, and selecting a row leaves
\* exactly that row selected.
C21_SingleAtMostOne ==
    (kCfg.enabled /\ kCfg.mode = "single") =>
        /\ Cardinality(kSelection.selectedRowIds) <= 1
        /\ kOp = "select" => kSelection.selectedRowIds = {kArg}

\* C22: in multi mode, selectAll adds exactly the row ids of the current
\* page to the selection and deselectAll removes exactly those ids; the
\* selected status of every row id that is not on the current page is
\* unchanged by either, whatever the size of the filtered and sorted
\* collection.
C22_SelectAllPageOnly ==
    (kCfg.enabled /\ kCfg.mode = "multi" /\ kCfg.getRowKey # "none") =>
        /\ kOp = "selectAll" => kSelection.selectedRowIds = kPrev.selectedRowIds \cup PageIds
        /\ kOp = "deselectAll" => kSelection.selectedRowIds = kPrev.selectedRowIds \ PageIds

\* selectAll on the second page, row 1 of the first page being selected
C22_Witness ==
    /\ kCfg.enabled /\ kCfg.mode = "multi" /\ kCfg.getRowKey = "id"
    /\ kOp = "selectAll"
    /\ kPagination.pageIndex = 1
    /\ kPrev.selectedRowIds = {1}
    /\ kSelection.selectedRowIds = {1, 3}

\* C23 as claimed: for any selection held before, calling selectAll and then
\* deselectAll on the same page leaves the selection equal to the set it was
\* before selectAll.
C23_SelectAllDeselectAll ==
    (kCfg.enabled /\ kCfg.mode = "multi" /\ kCfg.getRowKey # "none"
      /\ kPrevOp = "selectAll" /\ kOp = "deselectAll")
        => kSelection.selectedRowIds = kPrev2.selectedRowIds

\* C23 as amended: calling selectAll and then deselectAll on the same page
\* leaves the selection equal to the set it was before selectAll without the
\* row ids of that page; it is the set held before selectAll exactly when no
\* row of the page was selected then.
C23_SelectAllDeselectAllMinusPage ==
    (kCfg.enabled /\ kCfg.mode = "multi" /\ kCfg.getRowKey # "none"
      /\ kPrevOp = "selectAll" /\ kOp = "deselectAll")
        => /\ kSelection.selectedRowIds = kPrev2.selectedRowIds \ PageIds
           /\ (kSelection.selectedRowIds = kPrev2.selectedRowIds)
                 <=> (kPrev2.selectedRowIds \cap PageIds = {})

\* selectAll then deselectAll on the first page, rows 1 and 3 selected before
C23_Witness ==
    /\ kCfg.enabled /\ kCfg.mode = "multi" /\ kCfg.getRowKey = "id"
    /\ kPrevOp = "selectAll" /\ kOp = "deselectAll"
    /\ kPagination.pageIndex = 0
    /\ kPrev2.selectedRowIds = {1, 3}
    /\ kPrev.selectedRowIds = {1, 2, 3}
    /\ kSelection.selectedRowIds = {3}

\* C24: with selection enabled, isAllSelected is true exactly when the
\* current page is non-empty and every row id on it is selected, and
\* isIndeterminate is true exactly when at least one but not all of the
\* current page's row ids are selected; the two flags are never true in the
\* same state.
C24_DerivedFlags ==
    (kCfg.enabled /\ kCfg.getRowKey # "none") =>
        LET pageRowIds == getRowKeysForPage(kCfg, SelPage)
            all == isAllSelected(kCfg, pageRowIds, kSelection.selectedRowIds)
            some == isIndeterminate(kCfg, pageRowIds, kSelection.selectedRowIds)
        IN  /\ all <=> (PageIds # {} /\ PageIds \subseteq kSelection.selectedRowIds)
            /\ some <=> /\ PageIds \cap kSelection.selectedRowIds # {}
                         /\ ~(PageIds \subseteq kSelection.selectedRowIds)
            /\ ~(all /\ some)

\* one of the two rows of the first page is selected: indeterminate
C24_Witness ==
    /\ kCfg.enabled /\ kCfg.getRowKey = "id"
    /\ kPagination.pageIndex = 0
    /\ kSelection.selectedRowIds = {1, 3}
    /\ kOp = "toggle"
    /\ isIndeterminate(kCfg, getRowKeysForPage(kCfg, SelPage), kSelection.selectedRowIds)
    /\ ~isAllSelected(kCfg, getRowKeysForPage(kCfg, SelPage), kSelection.selectedRowIds)

----------------------------------------------------------------------------
(* Calls of the pagination functions: one call per behaviour, the arguments
   drawn from PageCalls *)

MaxRecords == 12
MaxPageSize == 5
MaxPageIndex == 3

\* a list of n records, record i being the number i
RecordList(n) == [i \in 1..n |-> i]

PageCalls ==
    [data : {RecordList(n) : n \in 0..MaxRecords},
     pagination : [pageIndex : 0..MaxPageIndex, pageSize : 0..MaxPageSize],
     serverMode : BOOLEAN,
     pageIndex : -2..(MaxPageIndex + 3)]

\* the page count the table hands to the navigation functions
PageCountOfCall == getPageCount(Len(xArgs.data), xArgs.pagination.pageSize)

InitPage ==
    /\ xArgs \in PageCalls
    /\ xResult = EmptyObject
    /\ xLast = "init"
    /\ SortIdle
    /\ ModeIdle
    /\ UrlIdle
    /\ HookIdle
    /\ PipeIdle
    /\ CodecIdle
    /\ SelIdle

PageReturn(fn, value) ==
    /\ xLast = "init"
    /\ xResult' = value
    /\ xLast' = fn
    /\ UNCHANGED xArgs
    /\ UNCHANGED notCall

CallClampPageIndex ==
    PageReturn("clampPageIndex",
               clampPageIndex(xArgs.pageIndex, Len(xArgs.data)))

CallGoToNextPage ==
    PageReturn("goToNextPage", goToNextPage(xArgs.pagination, PageCountOfCall))

CallGoToPreviousPage ==
    PageReturn("goToPreviousPage",
               goToPreviousPage(xArgs.pagination, PageCountOfCall))

CallGoToPage ==
    PageReturn("goToPage",
               goToPage(xArgs.pagination, xArgs.pageIndex, PageCountOfCall))

CallGetPaginatedData ==
    PageReturn("getPaginatedData",
               getPaginatedData(xArgs.data, xArgs.pagination, xArgs.serverMode))

NextPage ==
    \/ CallClampPageIndex
    \/ CallGoToNextPage
    \/ CallGoToPreviousPage
    \/ CallGoToPage
    \/ CallGetPaginatedData

SpecPage == InitPage /\ [][NextPage]_vars

\* ---- claims settled on SpecPage ----

\* i limited to the interval [0, n - 1], written without min and max
InRange(i, n) == IF i < 0 THEN 0 ELSE IF i > n - 1 THEN n - 1 ELSE i

\* what the claim calls the clamped index: inside [0, n - 1], 0 for n = 0
ClampedTo(i, n) == IF n = 0 THEN 0 ELSE InRange(i, n)

\* the index a navigation call aims at
NavigationTarget ==
    CASE xLast = "goToNextPage" -> xArgs.pagination.pageIndex + 1
      [] xLast = "goToPreviousPage" -> xArgs.pagination.pageIndex - 1
      [] OTHER -> xArgs.pageIndex

\* C25: clampPageIndex(i, N) lies in [0, N-1] for every integer i when N > 0
\* and is 0 when N = 0; goToNextPage, goToPreviousPage and goToPage return a
\* pageIndex clamped in this way against the current page count and leave
\* pageSize unchanged; pageSize 5 over 12 records gives 3 pages and
\* goToPage(5) gives pageIndex 2.
C25_ClampedNavigation ==
    /\ xLast = "clampPageIndex" =>
          /\ Len(xArgs.data) > 0 =>
                xResult \in 0..(Len(xArgs.data) - 1)
          /\ Len(xArgs.data) = 0 => xResult = 0
          /\ xResult = ClampedTo(xArgs.pageIndex, Len(xArgs.data))
    /\ xLast \in {"goToNextPage", "goToPreviousPage", "goToPage"} =>
          /\ xResult.pageIndex = ClampedTo(NavigationTarget, PageCountOfCall)
          /\ xResult.pageSize = xArgs.pagination.pageSize
          /\ DOMAIN xResult = DOMAIN xArgs.pagination
    /\ (/\ xLast = "goToPage"
        /\ Len(xArgs.data) = 12
        /\ xArgs.pagination.pageSize = 5
        /\ xArgs.pageIndex = 5) =>
          /\ PageCountOfCall = 3
          /\ xResult.pageIndex = 2

\* goToPage(5) with pageSize 5 over 12 records
C25_Witness ==
    /\ xLast = "goToPage"
    /\ Len(xArgs.data) = 12
    /\ xArgs.pagination.pageSize = 5
    /\ xArgs.pageIndex = 5
    /\ xResult = [pageIndex |-> 2, pageSize |-> 5]

\* the records of data at the positions [from, to), positions counted from 0
RecordsAt(data, from, to) ==
    [i \in 1..(IF to > from THEN to - from ELSE 0) |-> data[from + i]]

\* the pages 0 .. k-1 of data, concatenated in order
RECURSIVE PagesConcatenated(_, _, _)
PagesConcatenated(data, pageSize, k) ==
    IF k <= 0 THEN <<>>
    ELSE PagesConcatenated(data, pageSize, k - 1)
         \o getPaginatedData(data, [pageIndex |-> k - 1, pageSize |-> pageSize],
                             FALSE)

\* what getPaginatedData returns: the input in server mode, else the records
\* at [pageIndex*pageSize, min(pageIndex*pageSize + pageSize, length)), at most
\* pageSize of them
SliceOfInput ==
    LET start == xArgs.pagination.pageIndex * xArgs.pagination.pageSize
        end == IF start + xArgs.pagination.pageSize < Len(xArgs.data)
               THEN start + xArgs.pagination.pageSize ELSE Len(xArgs.data)
    IN  IF xArgs.serverMode = TRUE THEN xResult = xArgs.data
        ELSE /\ xResult = RecordsAt(xArgs.data, start, end)
             /\ Len(xResult) <= xArgs.pagination.pageSize

----------------------------------------------------------------------------
(* examples/basic-example: the sample users put through applyFilters,
   applySort and getPaginatedData, one call per step; the calls pass no
   serverMode argument, which the functions treat as they treat false *)

COL_AGE == <<"a", "g", "e">>
COL_ROLE == <<"r", "o", "l", "e">>
ROLE_ADMIN == <<"A", "d", "m", "i", "n">>
ROLE_USER == <<"U", "s", "e", "r">>
ROLE_MANAGER == <<"M", "a", "n", "a", "g", "e", "r">>

\* one record of the sample data; the fields email and active, which no call
\* below reads, are left out
User(id, name, age, role) ==
    [p \in {ID, COL_NAME, COL_AGE, COL_ROLE} |->
        CASE p = ID -> Num(id)
          [] p = COL_NAME -> Str(name)
          [] p = COL_AGE -> Num(age)
          [] p = COL_ROLE -> Str(role)]

users ==
    << User(1, <<"A", "l", "i", "c", "e", " ", "J", "o", "h", "n", "s", "o", "n">>,
            28, ROLE_ADMIN),
       User(2, <<"B", "o", "b", " ", "S", "m", "i", "t", "h">>,
            34, ROLE_USER),
       User(3, <<"C", "h", "a", "r", "l", "i", "e", " ", "B", "r", "o", "w", "n">>,
            22, ROLE_USER),
       User(4, <<"D", "i", "a", "n", "a", " ", "P", "r", "i", "n", "c", "e">>,
            30, ROLE_ADMIN),
       User(5, <<"E", "v", "e", " ", "W", "i", "l", "s", "o", "n">>,
            26, ROLE_USER),
       User(6, <<"F", "r", "a", "n", "k", " ", "M", "i", "l", "l", "e", "r">>,
            45, ROLE_MANAGER),
       User(7, <<"G", "r", "a", "c", "e", " ", "L", "e", "e">>,
            29, ROLE_USER),
       User(8, <<"H", "e", "n", "r", "y", " ", "D", "a", "v", "i", "s">>,
            31, ROLE_ADMIN),
       User(9, <<"I", "v", "y", " ", "C", "h", "e", "n">>,
            24, ROLE_USER),
       User(10, <<"J", "a", "c", "k", " ", "T", "a", "y", "l", "o", "r">>,
            38, ROLE_MANAGER),
       User(11, <<"K", "a", "t", "e", " ", "W", "i", "l", "l", "i", "a", "m", "s">>,
            27, ROLE_USER),
       User(12, <<"L", "i", "a", "m", " ", "J", "o", "n", "e", "s">>,
            33, ROLE_ADMIN) >>

\* the columns name, age and role, through createColumns
runtimeColumns ==
    <<createColumn(COL_NAME), createColumn(COL_AGE), createColumn(COL_ROLE)>>

ExampleColumnFilters ==
    { EmptyObject,
      Prop(COL_ROLE, ROLE_ADMIN),
      Prop(COL_ROLE, ROLE_USER),
      Prop(COL_ROLE, ROLE_MANAGER),
      Prop(COL_ROLE, <<"a">>),
      Prop(COL_NAME, <<"a">>) }

ExampleSortings ==
    { createInitialSortState,
      [columnId |-> COL_AGE, direction |-> DESC],
      [columnId |-> COL_AGE, direction |-> ASC],
      [columnId |-> COL_NAME, direction |-> ASC],
      [columnId |-> COL_ROLE, direction |-> DESC] }

ExamplePaginations == [pageIndex : {0, 1}, pageSize : {2, 5}]

ExampleCalls ==
    [filtering : [globalFilter : {<<>>}, columnFilters : ExampleColumnFilters],
     sorting : ExampleSortings,
     pagination : ExamplePaginations]

InitExample ==
    /\ xArgs \in ExampleCalls
    /\ xResult = EmptyObject
    /\ xLast = "init"
    /\ SortIdle
    /\ ModeIdle
    /\ UrlIdle
    /\ HookIdle
    /\ PipeIdle
    /\ CodecIdle
    /\ SelIdle

\* applyFilters(users, filtering, getValue)
ExampleFilter ==
    /\ xLast = "init"
    /\ xResult' = Prop("filtered",
                       applyFilters(users, xArgs.filtering, runtimeColumns,
                                    FALSE))
    /\ xLast' = "applyFilters"
    /\ UNCHANGED xArgs
    /\ UNCHANGED notCall

\* applySort(filtered, sorting, getValue)
ExampleSort ==
    /\ xLast = "applyFilters"
    /\ \E sorted \in applySort(xResult.filtered, xArgs.sorting, runtimeColumns,
                               FALSE) :
          xResult' = Spread(xResult, Prop("sorted", sorted))
    /\ xLast' = "applySort"
    /\ UNCHANGED xArgs
    /\ UNCHANGED notCall

\* getPaginatedData(sorted, pagination)
ExamplePaginate ==
    /\ xLast = "applySort"
    /\ xResult' = Spread(xResult,
                         Prop("page", getPaginatedData(xResult.sorted,
                                                       xArgs.pagination,
                                                       FALSE)))
    /\ xLast' = "getPaginatedData"
    /\ UNCHANGED xArgs
    /\ UNCHANGED notCall

NextExample ==
    \/ ExampleFilter
    \/ ExampleSort
    \/ ExamplePaginate

SpecExample == InitExample /\ [][NextExample]_vars

\* ---- claims settled on SpecExample ----

\* the ids of a list of records
IdsOf(records) == [i \in 1..Len(records) |-> records[i][ID].n]

\* the ages of a list of records
AgesOf(records) == [i \in 1..Len(records) |-> records[i][COL_AGE].n]

\* the filter of the scenario: role Admin, no global filter
AdminFilter ==
    /\ xLast # "init"
    /\ xArgs.filtering.columnFilters = Prop(COL_ROLE, ROLE_ADMIN)

\* the scenario of the claim: role Admin, age descending, pageSize 2
AdminScenario ==
    /\ AdminFilter
    /\ xArgs.sorting = [columnId |-> COL_AGE, direction |-> DESC]
    /\ xArgs.pagination.pageSize = 2

\* C27: on the 12 sample users the column filter {role: "Admin"} keeps exactly
\* the 4 records whose role is Admin, in input order; sorting them by age
\* descending orders them by decreasing age; pageSize 2 then gives 2 pages,
\* the first holding the two oldest Admins.
C27_AdminScenario ==
    /\ Len(users) = 12
    /\ AdminFilter =>
          /\ xResult.filtered =
                SelectSeq(users, LAMBDA u : u[COL_ROLE] = Str(ROLE_ADMIN))
          /\ Len(xResult.filtered) = 4
          /\ IdsOf(xResult.filtered) = <<1, 4, 8, 12>>
    /\ (AdminScenario /\ xLast \in {"applySort", "getPaginatedData"}) =>
          /\ IdsOf(xResult.sorted) = <<12, 8, 4, 1>>
          /\ \A i \in 1..3 :
                AgesOf(xResult.sorted)[i] > AgesOf(xResult.sorted)[i + 1]
    /\ (AdminScenario /\ xLast = "getPaginatedData") =>
          /\ getPageCount(Len(xResult.sorted), xArgs.pagination.pageSize) = 2
          /\ xArgs.pagination.pageIndex = 0 =>
                /\ IdsOf(xResult.page) = <<12, 8>>
                /\ AgesOf(xResult.page) = <<33, 31>>
          /\ xArgs.pagination.pageIndex = 1 =>
                IdsOf(xResult.page) = <<4, 1>>

\* the first page of the scenario
C27_Witness ==
    /\ AdminScenario
    /\ xLast = "getPaginatedData"
    /\ xArgs.pagination.pageIndex = 0
    /\ Len(xResult.page) = 2
    /\ xResult.page[1][COL_NAME] =
          Str(<<"L", "i", "a", "m", " ", "J", "o", "n", "e", "s">>)

----------------------------------------------------------------------------
(* Calls of the state functions of core/state: one call per behaviour on a
   TableState snapshot.  The functions read their argument and build the
   result with object spread and `new Set(...)`; none assigns to a property
   of the argument, so the snapshot handed in is, after the call, the value
   it was (xArgs is left as it is). *)

\* createInitialTableState(columnIds): all six slices, serverMode absent
createInitialTableStateOf(columnIds) ==
    Spread(createInitialTableState,
           [columnVisibility |-> [c \in Elements(columnIds) |-> TRUE],
            columnOrder |-> columnIds])

StateColumnIds == <<COL_NAME, COL_AGE>>

\* snapshots the table can hold
TableStates ==
    { Spread(createInitialTableStateOf(StateColumnIds),
             [sorting |-> so, pagination |-> pa, filtering |-> fi,
              columnVisibility |-> vi, columnOrder |-> co,
              selection |-> createInitialSelectionState(se)]) :
        so \in {createInitialSortState, [columnId |-> COL_NAME, direction |-> ASC]},
        pa \in {[pageIndex |-> 0, pageSize |-> 10], [pageIndex |-> 1, pageSize |-> 2]},
        fi \in {createInitialFilterState,
                [globalFilter |-> <<"a">>, columnFilters |-> Prop(COL_NAME, <<"b">>)]},
        vi \in {[c \in Elements(StateColumnIds) |-> TRUE],
                [c \in Elements(StateColumnIds) |-> c = COL_NAME]},
        co \in {StateColumnIds, <<COL_AGE, COL_NAME>>},
        se \in {{}, {1}, {1, 2}} }

\* the slice each function writes
SliceOf(fn) ==
    CASE fn \in {"toggleSort", "setSort", "clearSort"} -> "sorting"
      [] fn \in {"goToPage", "setPageSize"} -> "pagination"
      [] fn \in {"setGlobalFilter", "setColumnFilter", "clearAllFilters"} -> "filtering"
      [] fn = "updateColumnVisibility" -> "columnVisibility"
      [] fn = "updateColumnOrder" -> "columnOrder"
      [] OTHER -> "selection"

StateFunctions ==
    {"toggleSort", "setSort", "clearSort", "goToPage", "setPageSize",
     "setGlobalFilter", "setColumnFilter", "clearAllFilters",
     "updateColumnVisibility", "updateColumnOrder",
     "selectRow", "deselectRow", "toggleRowSelection", "clearSelection"}

\* arg is the number the call takes: a row id, a page index or a page size
StateCalls == [state : TableStates, fn : StateFunctions, arg : {1, 3}]

InitState ==
    /\ xArgs \in StateCalls
    /\ xResult = EmptyObject
    /\ xLast = "init"
    /\ SortIdle
    /\ ModeIdle
    /\ UrlIdle
    /\ HookIdle
    /\ PipeIdle
    /\ CodecIdle
    /\ SelIdle

StateReturn(fns, value) ==
    /\ xLast = "init"
    /\ xArgs.fn \in fns
    /\ xResult' = value
    /\ xLast' = xArgs.fn
    /\ UNCHANGED xArgs
    /\ UNCHANGED notCall

\* updateSorting(state, <the sort state a sort function returns>)
CallUpdateSorting ==
    StateReturn({"toggleSort", "setSort", "clearSort"},
        updateSorting(xArgs.state,
            CASE xArgs.fn = "toggleSort" -> toggleSort(xArgs.state.sorting, COL_AGE)
              [] xArgs.fn = "setSort" -> setSort(COL_AGE, DESC)
              [] OTHER -> clearSort))

\* updatePagination(state, <the pagination state a pagination function returns>)
CallUpdatePagination ==
    StateReturn({"goToPage", "setPageSize"},
        updatePagination(xArgs.state,
            IF xArgs.fn = "goToPage"
            THEN goToPage(xArgs.state.pagination, xArgs.arg, 4)
            ELSE setPageSize(xArgs.state.pagination, xArgs.arg, Num(4))))

\* updateFiltering(state, <the filter state a filter function returns>)
CallUpdateFiltering ==
    StateReturn({"setGlobalFilter", "setColumnFilter", "clearAllFilters"},
        updateFiltering(xArgs.state,
            CASE xArgs.fn = "setGlobalFilter" ->
                     setGlobalFilter(<<"z">>)
              [] xArgs.fn = "setColumnFilter" ->
                     setColumnFilter(xArgs.state.filtering, COL_AGE, <<"3">>)
              [] OTHER -> clearAllFilters))

CallUpdateColumnVisibility ==
    StateReturn({"updateColumnVisibility"},
        updateColumnVisibility(xArgs.state, COL_AGE, xArgs.arg = 1))

CallUpdateColumnOrder ==
    StateReturn({"updateColumnOrder"},
        updateColumnOrder(xArgs.state,
            IF xArgs.arg = 1 THEN <<COL_AGE, COL_NAME>> ELSE StateColumnIds))

CallSelectRow ==
    StateReturn({"selectRow"}, selectRow(xArgs.state, xArgs.arg))

CallDeselectRow ==
    StateReturn({"deselectRow"}, deselectRow(xArgs.state, xArgs.arg))

CallToggleRowSelection ==
    StateReturn({"toggleRowSelection"},
                toggleRowSelection(xArgs.state, xArgs.arg))

CallClearSelection ==
    StateReturn({"clearSelection"}, clearSelection(xArgs.state))

NextState ==
    \/ CallUpdateSorting
    \/ CallUpdatePagination
    \/ CallUpdateFiltering
    \/ CallUpdateColumnVisibility
    \/ CallUpdateColumnOrder
    \/ CallSelectRow
    \/ CallDeselectRow
    \/ CallToggleRowSelection
    \/ CallClearSelection

SpecState == InitState /\ [][NextState]_vars

\* ---- claims settled on SpecState ----

TableSlices ==
    {"sorting", "pagination", "filtering", "columnVisibility", "columnOrder",
     "selection"}

\* C28: a mutation of one slice (sorting, pagination, filtering,
\* columnVisibility, columnOrder or selection) returns a TableState whose
\* other slices are those of the snapshot it was given; a sort or filter
\* mutation changes neither pageIndex nor the selection; selectRow,
\* deselectRow and toggleRowSelection return the previous identifier set with
\* the one row added or removed, the previous snapshot holding the set it
\* held.
C28_OtherSlicesKept ==
    xLast \in StateFunctions =>
        /\ DOMAIN xResult = TableSlices
        /\ DOMAIN xArgs.state = TableSlices
        /\ \A slice \in TableSlices \ {SliceOf(xLast)} :
              xResult[slice] = xArgs.state[slice]
        /\ SliceOf(xLast) \in {"sorting", "filtering"} =>
              /\ xResult.pagination.pageIndex = xArgs.state.pagination.pageIndex
              /\ xResult.selection = xArgs.state.selection
        /\ xLast = "selectRow" =>
              xResult.selection.selectedRowIds =
                  xArgs.state.selection.selectedRowIds \cup {xArgs.arg}
        /\ xLast = "deselectRow" =>
              xResult.selection.selectedRowIds =
                  xArgs.state.selection.selectedRowIds \ {xArgs.arg}
        /\ xLast = "toggleRowSelection" =>
              xResult.selection.selectedRowIds =
                  IF xArgs.arg \in xArgs.state.selection.selectedRowIds
                  THEN xArgs.state.selection.selectedRowIds \ {xArgs.arg}
                  ELSE xArgs.state.selection.selectedRowIds \cup {xArgs.arg}

\* a sort mutation on a snapshot on page 1 with two rows selected: the sort
\* slice is new, the page and the selection are the snapshot's
C28_Witness ==
    /\ xLast = "toggleSort"
    /\ xArgs.state.pagination.pageIndex = 1
    /\ xArgs.state.selection.selectedRowIds = {1, 2}
    /\ xResult.sorting # xArgs.state.sorting
    /\ xResult.pagination.pageIndex = 1
    /\ xResult.selection.selectedRowIds = {1, 2}

----------------------------------------------------------------------------
(* URL synchronisation with an adapter that throws: construction reads the
   URL inside try/catch, and the debounced writer wraps getSearchParams,
   serializeStateToUrl and setSearchParams in try/catch.  The adapter object
   is stable and isClient() is true; each call of getSearchParams or
   setSearchParams either returns or throws. *)

notUrlCall == <<sortVars, modeVars, hookVars, pipeVars, codecVars, selVars>>

\* the options a table is constructed with: the state option, and whether
\* the adapter throws when the URL is read at construction
FailInputs ==
    [config : {UndefV,
               [initialState |-> [pagination |-> [pageIndex |-> 1]],
                onStateChange |-> "fn"]},
     search : HookQueries \cup {<<>>},
     readThrows : BOOLEAN]

\* the state the useState initializers build from the options and from
\* what the URL read gave
ConstructedState(cfg, initialPageSize, urlInit) ==
    [pagination |-> InitialPagination(cfg, initialPageSize, urlInit),
     sorting |-> InitialSorting(cfg, urlInit),
     filtering |-> InitialFiltering(cfg, urlInit),
     selection |-> InitialSelection(cfg)]

\* what the adapter does when the debounced writer runs
WriteOutcomes == {"written", "getSearchParams throws", "setSearchParams throws"}

\* the callback of the debounced writer: the query string afterwards
UrlWriteCallback(outcome, state, location) ==
    IF outcome = "written"
    THEN serializeStateToUrl(state, location, urlSyncConfigRef)
    ELSE location

\* mount: the initializers run, the effect schedules the first write
InitFail ==
    /\ xArgs \in FailInputs
    /\ \E initialPageSize \in InitialPageSizes :
         uState = ConstructedState(xArgs.config, initialPageSize,
                     urlInitialStateOf(xArgs.readThrows, TRUE, xArgs.search))
    /\ uLocation = xArgs.search
    /\ uTimeoutId = debounced(0, {}, 1, 0, DebounceMs, uState).timeoutId
    /\ uTimers = debounced(0, {}, 1, 0, DebounceMs, uState).timers
    /\ uNextId = 2
    /\ uNow = 0
    /\ uMounted = TRUE
    /\ uChanges = 0
    /\ uLastChange = 0
    /\ uBurst = 0
    /\ uWritesSinceChange = 0
    /\ uLastWrite = [at |-> -1, state |-> uState]
    /\ uWritesAfterUnmount = 0
    /\ xResult = [outcome |-> "none", state |-> uState, location |-> uLocation]
    /\ xLast = "mount"
    /\ SortIdle
    /\ ModeIdle
    /\ HookIdle
    /\ PipeIdle
    /\ CodecIdle
    /\ SelIdle

\* currentState changes (a page change): cleanup, then the effect calls the
\* debounced writer with the new state
FailStateChange ==
    /\ uChanges < MaxChanges
    /\ \E i \in 0..2 :
         LET s == [uState EXCEPT !.pagination.pageIndex = i]
             c == EffectCleanup(uTimeoutId, uTimers)
             d == debounced(c.timeoutId, c.timers, uNextId, uNow, DebounceMs, s)
         IN  /\ s # uState
             /\ uState' = s
             /\ uTimeoutId' = d.timeoutId
             /\ uTimers' = d.timers
    /\ uNextId' = uNextId + 1
    /\ uChanges' = uChanges + 1
    /\ uBurst' = uBurst
    /\ uLastChange' = uNow
    /\ uWritesSinceChange' = 0
    /\ xLast' = "change"
    /\ UNCHANGED <<uNow, uMounted, uLocation, uLastWrite, uWritesAfterUnmount,
                   xArgs, xResult>>
    /\ UNCHANGED notUrlCall

FailTick ==
    /\ uNow < MaxTime
    /\ uNow' = uNow + 1
    /\ xLast' = "tick"
    /\ UNCHANGED <<uState, uTimeoutId, uTimers, uNextId, uMounted, uLocation,
                   uChanges, uLastChange, uBurst, uWritesSinceChange,
                   uLastWrite, uWritesAfterUnmount, xArgs, xResult>>
    /\ UNCHANGED notUrlCall

\* a due timeout fires: the callback runs inside try/catch, whatever the
\* adapter does; then timeoutId = null
FailTimerFire ==
    /\ \E t \in uTimers, outcome \in WriteOutcomes :
         /\ t.due <= uNow
         /\ uTimers' = uTimers \ {t}
         /\ uLocation' = UrlWriteCallback(outcome, t.args, uLocation)
         /\ uLastWrite' = [at |-> uNow, state |-> t.args]
         /\ xResult' = [outcome |-> outcome, state |-> uState,
                        location |-> uLocation]
    /\ uTimeoutId' = 0
    /\ uWritesSinceChange' = uWritesSinceChange + 1
    /\ xLast' = "fire"
    /\ UNCHANGED <<uState, uNextId, uNow, uMounted, uChanges, uLastChange,
                   uBurst, uWritesAfterUnmount, xArgs>>
    /\ UNCHANGED notUrlCall

NextFail == FailStateChange \/ FailTick \/ FailTimerFire

SpecFail == InitFail /\ [][NextFail]_vars

\* ---- claims settled on SpecFail ----

\* the last write attempt failed and the state has not changed since
FailedWrite ==
    /\ uWritesSinceChange >= 1
    /\ xResult.outcome \in {"getSearchParams throws", "setSearchParams throws"}

----------------------------------------------------------------------------
(* Column model: getOrderedColumns.  A Map is a list of <<key, value>>
   entries in insertion order. *)

\* Map.prototype.set: the value of an existing key is replaced in place, a
\* new key is appended
MapSet(map, key, value) ==
    IF \E i \in 1..Len(map) : map[i][1] = key
    THEN [i \in 1..Len(map) |-> IF map[i][1] = key THEN <<key, value>> ELSE map[i]]
    ELSE Append(map, <<key, value>>)

\* new Map(columns.map((col) => [col.id, col]))
RECURSIVE ColumnMapOf(_)
ColumnMapOf(columns) ==
    IF columns = <<>> THEN <<>>
    ELSE MapSet(ColumnMapOf(SubSeq(columns, 1, Len(columns) - 1)),
                columns[Len(columns)].id, columns[Len(columns)])

\* Map.prototype.has
MapHas(map, key) == \E i \in 1..Len(map) : map[i][1] = key

\* Map.prototype.get of a key the map has
MapGet(map, key) == map[CHOOSE i \in 1..Len(map) : map[i][1] = key][2]

\* Map.prototype.delete
MapDelete(map, key) == SelectSeq(map, LAMBDA e : e[1] # key)

\* [...map.values()]
MapValues(map) == [i \in 1..Len(map) |-> map[i][2]]

\* the loop `for (const id of order)`: the columns pushed and the map left
RECURSIVE OrderLoop(_, _, _)
OrderLoop(order, columnMap, ordered) ==
    IF order = <<>> THEN [ordered |-> ordered, columnMap |-> columnMap]
    ELSE IF MapHas(columnMap, Head(order))
         THEN OrderLoop(Tail(order), MapDelete(columnMap, Head(order)),
                        Append(ordered, MapGet(columnMap, Head(order))))
         ELSE OrderLoop(Tail(order), columnMap, ordered)

\* (variant used to test C30: a column pushed is not deleted from the map
\* until the loop is over)
getOrderedColumnsNoDelete(columns, order) ==
    LET columnMap == ColumnMapOf(columns)
        named == SelectSeq(order, LAMBDA id : MapHas(columnMap, id))
    IN  [i \in 1..Len(named) |-> MapGet(columnMap, named[i])]
        \o SelectSeq(MapValues(columnMap),
                     LAMBDA col : col.id \notin Elements(order))

getOrderedColumns(columns, order) ==
    LET loop == OrderLoop(order, ColumnMapOf(columns), <<>>)
    IN  loop.ordered \o MapValues(loop.columnMap)

\* ---- calls of getOrderedColumns ----

OrderColumnIds == {COL_NAME, COL_AGE, COL_ROLE}

\* a column of the table; the header tells two columns of one id apart
OrderColumn(id, k) == [id |-> id, accessorKey |-> id, header |-> k]

\* the column lists: up to three columns of distinct ids, and one list in
\* which two columns share an id
OrderColumnLists ==
    { [i \in 1..Len(ids) |-> OrderColumn(ids[i], i)] :
        ids \in { s \in UNION {[1..n -> OrderColumnIds] : n \in 0..3} :
                    \A i, j \in 1..Len(s) : i # j => s[i] # s[j] } }
    \cup { <<OrderColumn(COL_NAME, 1), OrderColumn(COL_AGE, 2),
             OrderColumn(COL_NAME, 3)>> }

\* the `order` lists: column ids and an id of no column, repeats allowed
OrderLists == UNION {[1..n -> OrderColumnIds \cup {COL_X}] : n \in 0..MaxLen}

InitOrder ==
    /\ xArgs \in [columns : OrderColumnLists, order : OrderLists]
    /\ xResult = EmptyObject
    /\ xLast = "init"
    /\ SortIdle
    /\ ModeIdle
    /\ UrlIdle
    /\ HookIdle
    /\ PipeIdle
    /\ CodecIdle
    /\ SelIdle

CallGetOrderedColumns ==
    /\ xLast = "init"
    /\ xResult' = getOrderedColumns(xArgs.columns, xArgs.order)
    /\ xLast' = "getOrderedColumns"
    /\ UNCHANGED xArgs
    /\ UNCHANGED notCall

NextOrder == CallGetOrderedColumns

SpecOrder == InitOrder /\ [][NextOrder]_vars

\* ---- claims settled on SpecOrder ----

\* the list s without the later occurrences of its elements
RECURSIVE FirstOccurrences(_)
FirstOccurrences(s) ==
    IF s = <<>> THEN <<>>
    ELSE LET front == FirstOccurrences(SubSeq(s, 1, Len(s) - 1))
         IN  IF s[Len(s)] \in Elements(front) THEN front
             ELSE Append(front, s[Len(s)])

DistinctIds(columns) ==
    \A i, j \in 1..Len(columns) : i # j => columns[i].id # columns[j].id

\* C30: for columns with distinct ids, getOrderedColumns returns a
\* permutation of its input columns (each exactly once): first the columns
\* named in `order`, in the order of their first occurrence there and
\* skipping ids that match no column, then the remaining columns in their
\* original relative order.
C30_StablePartialReorder ==
    (xLast = "getOrderedColumns" /\ DistinctIds(xArgs.columns)) =>
        LET ids == {xArgs.columns[i].id : i \in 1..Len(xArgs.columns)}
            named == FirstOccurrences(SelectSeq(xArgs.order,
                                                LAMBDA id : id \in ids))
            rest == SelectSeq(xArgs.columns,
                              LAMBDA col : col.id \notin Elements(xArgs.order))
        IN  /\ Len(xResult) = Len(xArgs.columns)
            /\ \A i \in 1..Len(xArgs.columns) :
                  Cardinality({k \in 1..Len(xResult) :
                                  xResult[k] = xArgs.columns[i]}) = 1
            /\ [k \in 1..Len(named) |-> xResult[k].id] = named
            /\ SubSeq(xResult, Len(named) + 1, Len(xResult)) = rest

\* order [role, x, role] over the columns name, age, role: role comes
\* first, once, then name and age
C30_Witness ==
    /\ xLast = "getOrderedColumns"
    /\ xArgs.order = <<COL_ROLE, COL_X, COL_ROLE>>
    /\ [i \in 1..Len(xArgs.columns) |-> xArgs.columns[i].id]
           = <<COL_NAME, COL_AGE, COL_ROLE>>
    /\ [k \in 1..Len(xResult) |-> xResult[k].id] = <<COL_ROLE, COL_NAME, COL_AGE>>

----------------------------------------------------------------------------
(* Column model: validateColumns.  An error message is the record of its
   kind and of the id it names. *)

\* the body of `for (const def of definitions)`, run on the definitions
\* from position k on: the errors pushed and the ids seen
RECURSIVE ValidateLoop(_, _, _, _)
ValidateLoop(definitions, k, errors, ids) ==
    IF k > Len(definitions) THEN [errors |-> errors, ids |-> ids]
    ELSE LET id == definitions[k].id
         IN  IF ~Truthy(id) \/ trim(id) = <<>>
             THEN ValidateLoop(definitions, k + 1,
                               Append(errors, [kind |-> "missing id"]), ids)
             ELSE ValidateLoop(definitions, k + 1,
                               IF id \in ids
                               THEN Append(errors, [kind |-> "duplicate id", id |-> id])
                               ELSE errors,
                               ids \cup {id})

\* (variant used to test C31: a blank id is not skipped, it goes on to the
\* duplicate test and into the set)
validateColumnsNoContinue(definitions) ==
    LET RECURSIVE Loop(_, _, _)
        Loop(k, errors, ids) ==
            IF k > Len(definitions) THEN errors
            ELSE LET id == definitions[k].id
                     e1 == IF ~Truthy(id) \/ trim(id) = <<>>
                           THEN Append(errors, [kind |-> "missing id"])
                           ELSE errors
                     e2 == IF id \in ids
                           THEN Append(e1, [kind |-> "duplicate id", id |-> id])
                           ELSE e1
                 IN  Loop(k + 1, e2, ids \cup {id})
        errs == Loop(1, <<>>, {})
    IN  [valid |-> Len(errs) = 0, errors |-> errs]

validateColumns(definitions) ==
    LET loop == ValidateLoop(definitions, 1, <<>>, {})
    IN  [valid |-> Len(loop.errors) = 0, errors |-> loop.errors]

\* ---- calls of validateColumns ----

\* the id of a definition: two names, a name with a leading space, the
\* empty string, a string of spaces, and no id at all
ValidateIds == {<<"a">>, <<"b">>, <<" ", "a">>, <<>>, <<" ">>, UNDEFINED}

ValidateInputs ==
    UNION { [1..n -> [id : ValidateIds]] : n \in 0..MaxLen }

InitValidate ==
    /\ xArgs \in ValidateInputs
    /\ xResult = EmptyObject
    /\ xLast = "init"
    /\ SortIdle
    /\ ModeIdle
    /\ UrlIdle
    /\ HookIdle
    /\ PipeIdle
    /\ CodecIdle
    /\ SelIdle

CallValidateColumns ==
    /\ xLast = "init"
    /\ xResult' = validateColumns(xArgs)
    /\ xLast' = "validateColumns"
    /\ UNCHANGED xArgs
    /\ UNCHANGED notCall

NextValidate == CallValidateColumns

SpecValidate == InitValidate /\ [][NextValidate]_vars

\* ---- claims settled on SpecValidate ----

\* an id that is absent, empty or made of spaces only
BlankId(id) == id = UNDEFINED \/ \A i \in 1..Len(id) : id[i] = " "

\* the positions of the definitions with a blank id
BlankPositions == {i \in 1..Len(xArgs) : BlankId(xArgs[i].id)}

\* the positions that repeat the non-blank id of an earlier definition
RepeatPositions ==
    {i \in 1..Len(xArgs) \ BlankPositions :
        \E j \in 1..(i - 1) : xArgs[j].id = xArgs[i].id}

\* C31: validateColumns returns (it does not throw) {valid, errors} with
\* valid = true exactly when errors is empty, which is exactly when every
\* definition has a non-blank id and the ids are pairwise distinct; each
\* blank id and each repeated occurrence of an id contributes one error.
C31_ValidateColumns ==
    xLast = "validateColumns" =>
        /\ DOMAIN xResult = {"valid", "errors"}
        /\ xResult.valid \in BOOLEAN
        /\ xResult.valid <=> xResult.errors = <<>>
        /\ xResult.errors = <<>> <=>
              /\ BlankPositions = {}
              /\ \A i, j \in 1..Len(xArgs) : i # j => xArgs[i].id # xArgs[j].id
        /\ Len(xResult.errors) =
              Cardinality(BlankPositions) + Cardinality(RepeatPositions)

\* ids "a", "", "a": one error for the blank id, one for the repeated "a"
C31_Witness ==
    /\ xLast = "validateColumns"
    /\ xArgs = <<[id |-> <<"a">>], [id |-> <<>>], [id |-> <<"a">>]>>
    /\ ~xResult.valid
    /\ xResult.errors = <<[kind |-> "missing id"],
                          [kind |-> "duplicate id", id |-> <<"a">>]>>

----------------------------------------------------------------------------
(* The exposed pageCount and setPageSize, called on pagination states that
   may carry the server's totalCount and pageCount *)

\* the pagination states: pageSize from -1 on, the server fields present
\* or not
ServerPaginations ==
    { Spread(Spread([pageIndex |-> i, pageSize |-> s], tc), pc) :
        i \in 0..MaxPageIndex,
        s \in -1..MaxPageSize,
        tc \in {EmptyObject} \cup {Prop("totalCount", n) : n \in {0, 7, 12}},
        pc \in {EmptyObject} \cup {Prop("pageCount", n) : n \in {0, 2, 9}} }

CountCalls ==
    [pagination : ServerPaginations,
     rowCount : {0, 1, 5, 12},
     pageSize : {-1, 0, 1, 2, 5},
     totalItems : {UndefV, Num(0), Num(3), Num(12)}]

InitCount ==
    /\ xArgs \in CountCalls
    /\ xResult = EmptyObject
    /\ xLast = "init"
    /\ SortIdle
    /\ ModeIdle
    /\ UrlIdle
    /\ HookIdle
    /\ PipeIdle
    /\ CodecIdle
    /\ SelIdle

\* the pageCount memo is computed
CallPageCount ==
    /\ xLast = "init"
    /\ xResult' = pageCountOf(xArgs.pagination, xArgs.rowCount)
    /\ xLast' = "pageCount"
    /\ UNCHANGED xArgs
    /\ UNCHANGED notCall
\* setPageSize(pagination, pageSize, totalItems?)
CallSetPageSize ==
    /\ xLast = "init"
    /\ xResult' = setPageSize(xArgs.pagination, xArgs.pageSize, xArgs.totalItems)
    /\ xLast' = "setPageSize"
    /\ UNCHANGED xArgs
    /\ UNCHANGED notCall

NextCount == CallPageCount \/ CallSetPageSize

SpecCount == InitCount /\ [][NextCount]_vars

\* ---- claims settled on SpecCount ----

\* ceil(count / size) for size > 0: the least number of pages of `size`
\* records that hold `count` records
PagesFor(count, size) ==
    CHOOSE n \in 0..(count + 1) :
        /\ n * size >= count
        /\ \A m \in 0..(n - 1) : m * size < count

\* the page count from a count: 0 for pageSize <= 0
CountedPages(count, size) == IF size <= 0 THEN 0 ELSE PagesFor(count, size)

\* C32: the exposed pageCount is the server-supplied pageCount when it is
\* defined, else ceil(totalCount / pageSize) when the server-supplied
\* totalCount is defined, else ceil(filteredRowCount / pageSize); computed
\* from a count with pageSize <= 0 it is 0.
C32_PageCountPriority ==
    xLast = "pageCount" =>
        xResult =
            IF "pageCount" \in DOMAIN xArgs.pagination
            THEN xArgs.pagination.pageCount
            ELSE IF "totalCount" \in DOMAIN xArgs.pagination
                 THEN CountedPages(xArgs.pagination.totalCount,
                                   xArgs.pagination.pageSize)
                 ELSE CountedPages(xArgs.rowCount, xArgs.pagination.pageSize)

\* 5 filtered rows, the server says 12 in all, pageSize 5: 3 pages
C32_Witness ==
    /\ xLast = "pageCount"
    /\ xArgs.pagination = [pageIndex |-> 0, pageSize |-> 5, totalCount |-> 12]
    /\ xArgs.rowCount = 5
    /\ xResult = 3

\* the total page count setPageSize clamps against
TotalPagesFor(state, pageSize, totalItems) ==
    IF "pageCount" \in DOMAIN state THEN state.pageCount
    ELSE IF "totalCount" \in DOMAIN state
         THEN CountedPages(state.totalCount, pageSize)
         ELSE IF totalItems # UndefV THEN CountedPages(totalItems.n, pageSize)
              ELSE 0

\* C33: setPageSize sets pageSize to the new value and re-clamps pageIndex
\* into [0, totalPages-1] (0 when totalPages is 0), totalPages being
\* state.pageCount if defined, else ceil(state.totalCount / new pageSize) if
\* totalCount is defined, else ceil(totalItems / new pageSize) if totalItems
\* is supplied, else 0; totalCount and pageCount are carried over unchanged.
C33_SetPageSizeReclamps ==
    xLast = "setPageSize" =>
        /\ xResult.pageSize = xArgs.pageSize
        /\ xResult.pageIndex =
              ClampedTo(xArgs.pagination.pageIndex,
                        TotalPagesFor(xArgs.pagination, xArgs.pageSize,
                                      xArgs.totalItems))
        /\ DOMAIN xResult = DOMAIN xArgs.pagination
        /\ \A f \in DOMAIN xArgs.pagination \cap {"totalCount", "pageCount"} :
              xResult[f] = xArgs.pagination[f]

\* page 3 of pageSize 1 over 12 items, then pageSize 5: 3 pages, page 2
C33_Witness ==
    /\ xLast = "setPageSize"
    /\ xArgs.pagination = [pageIndex |-> 3, pageSize |-> 1]
    /\ xArgs.pageSize = 5
    /\ xArgs.totalItems = Num(12)
    /\ xResult = [pageIndex |-> 2, pageSize |-> 5]

----------------------------------------------------------------------------
(* Calls of defaultCompare on pairs of cell values *)

CompareValues ==
    {NullV, UndefV}
    \cup {Num(n) : n \in -1..3}
    \cup {Str(s) : s \in {<<>>, <<"a">>, <<"B">>, <<"a", "b">>}}

InitCompare ==
    /\ xArgs \in [a : CompareValues, b : CompareValues]
    /\ xResult = EmptyObject
    /\ xLast = "init"
    /\ SortIdle
    /\ ModeIdle
    /\ UrlIdle
    /\ HookIdle
    /\ PipeIdle
    /\ CodecIdle
    /\ SelIdle

\* defaultCompare(a, b) and defaultCompare(b, a)
CallDefaultCompare ==
    /\ xLast = "init"
    /\ xResult' = [ab |-> defaultCompare(xArgs.a, xArgs.b),
                   ba |-> defaultCompare(xArgs.b, xArgs.a)]
    /\ xLast' = "defaultCompare"
    /\ UNCHANGED xArgs
    /\ UNCHANGED notCall

NextCompare == CallDefaultCompare

SpecCompare == InitCompare /\ [][NextCompare]_vars

\* ---- claims settled on SpecCompare ----

\* C34: defaultCompare returns 0 when both arguments are missing values
\* (each null or undefined), a positive result when only the first is
\* missing and a negative result when only the second is missing, so that on
\* missing values sign(compare(a, b)) = -sign(compare(b, a)).
C34_MissingValuesSymmetric ==
    xLast = "defaultCompare" =>
        /\ (IsMissing(xArgs.a) /\ IsMissing(xArgs.b)) => xResult.ab = 0
        /\ (IsMissing(xArgs.a) /\ ~IsMissing(xArgs.b)) => xResult.ab > 0
        /\ (~IsMissing(xArgs.a) /\ IsMissing(xArgs.b)) => xResult.ab < 0
        /\ (IsMissing(xArgs.a) \/ IsMissing(xArgs.b)) =>
              Sign(xResult.ab) = -Sign(xResult.ba)

----------------------------------------------------------------------------
(* serializeStateToUrl applied twice: the state is serialized into the
   incoming parameters, then into the parameters that call returned *)

notCodecCall == <<sortVars, modeVars, urlVars, hookVars, pipeVars, selVars>>

InitTwice ==
    /\ cState \in CodecStates
    /\ cParams \in CodecParams
    /\ cConfig \in CodecConfigs
    /\ cOut = <<>>
    /\ cParamsAfter = cParams
    /\ cParsed = EmptyObject
    /\ cLast = "init"
    /\ xArgs = EmptyObject
    /\ xResult = <<>>
    /\ xLast = "init"
    /\ SortIdle
    /\ ModeIdle
    /\ UrlIdle
    /\ HookIdle
    /\ PipeIdle
    /\ SelIdle

\* serializeStateToUrl(cState, cParams, cConfig)
TwiceFirst ==
    /\ cLast = "init"
    /\ cOut' = serializeStateToUrl(cState, cParams, cConfig)
    /\ cLast' = "serialize"
    /\ UNCHANGED <<cState, cParams, cConfig, cParamsAfter, cParsed>>
    /\ UNCHANGED callVars
    /\ UNCHANGED notCodecCall

\* serializeStateToUrl(cState, cOut, cConfig)
TwiceSecond ==
    /\ cLast = "serialize"
    /\ xLast = "init"
    /\ xResult' = serializeStateToUrl(cState, cOut, cConfig)
    /\ xLast' = "serialize again"
    /\ UNCHANGED xArgs
    /\ UNCHANGED codecVars
    /\ UNCHANGED notCodecCall

NextTwice == TwiceFirst \/ TwiceSecond

SpecTwice == InitTwice /\ [][NextTwice]_vars

\* ---- claims settled on SpecTwice ----

\* C35: serializeStateToUrl is idempotent for a fixed state: for any
\* incoming parameters p, serializing the state into the result of
\* serializing it into p gives the parameters the first serialization gave.
C35_SerializeIdempotent ==
    xLast = "serialize again" => xResult = cOut

----------------------------------------------------------------------------
(* applySort and applyFilters called with a column id that names no column:
   the table has the one column `name`; the records also carry an `id`
   property, which no column reads *)

UnknownColumns == <<createColumn(COL_NAME)>>

UnknownSortings ==
    { setSort(ID, ASC), setSort(ID, DESC), setSort(COL_X, DESC),
      setSort(COL_NAME, DESC) }

UnknownColumnFilters ==
    { Prop(ID, <<"1">>),
      Prop(COL_X, <<"b">>),
      Prop(COL_X, <<" ">>),
      Spread(Prop(COL_NAME, <<"b">>), Prop(COL_X, <<>>)),
      Spread(Prop(COL_NAME, <<"b">>), Prop(ID, <<"2">>)) }

InitUnknown ==
    /\ xArgs \in [data : PipeData,
                  sorting : UnknownSortings,
                  filtering : [globalFilter : {<<>>},
                               columnFilters : UnknownColumnFilters]]
    /\ xResult = EmptyObject
    /\ xLast = "init"
    /\ SortIdle
    /\ ModeIdle
    /\ UrlIdle
    /\ HookIdle
    /\ PipeIdle
    /\ CodecIdle
    /\ SelIdle

\* applySort(data, sorting, getValue): one of the lists the call can return
CallApplySort ==
    /\ xLast = "init"
    /\ \E sorted \in applySort(xArgs.data, xArgs.sorting, UnknownColumns, FALSE) :
          xResult' = sorted
    /\ xLast' = "applySort"
    /\ UNCHANGED xArgs
    /\ UNCHANGED notCall

\* applyFilters(data, filtering, getValue)
CallApplyFilters ==
    /\ xLast = "init"
    /\ xResult' = applyFilters(xArgs.data, xArgs.filtering, UnknownColumns, FALSE)
    /\ xLast' = "applyFilters"
    /\ UNCHANGED xArgs
    /\ UNCHANGED notCall

NextUnknown == CallApplySort \/ CallApplyFilters

SpecUnknown == InitUnknown /\ [][NextUnknown]_vars

\* ---- claims settled on SpecUnknown ----

\* the id names no column of the table
NoColumn(columnId) ==
    \A k \in 1..Len(UnknownColumns) : UnknownColumns[k].id # columnId

\* C36: sorting by a column id that matches no column leaves the record
\* order unchanged, and a non-blank column filter on a column id that matches
\* no column is evaluated against a missing value, so no record passes it;
\* both calls return a list.
C36_UnknownColumn ==
    /\ (xLast = "applySort" /\ NoColumn(xArgs.sorting.columnId)) =>
          xResult = xArgs.data
    /\ (xLast = "applyFilters"
        /\ \E c \in DOMAIN xArgs.filtering.columnFilters :
              NoColumn(c) /\ trim(xArgs.filtering.columnFilters[c]) # <<>>) =>
          xResult = <<>>
    /\ xLast \in {"applySort", "applyFilters"} =>
          /\ DOMAIN xResult = 1..Len(xResult)
          /\ Len(xResult) <= Len(xArgs.data)

\* two records sorted by `id` descending, a property no column reads: the
\* order is the input's
C36_Witness ==
    /\ xLast = "applySort"
    /\ xArgs.sorting = setSort(ID, DESC)
    /\ Len(xArgs.data) = 2
    /\ xResult[1][ID] = Num(1)
    /\ xResult[2][ID] = Num(2)

----------------------------------------------------------------------------
(* SpecBatch: mutators of an uncontrolled table called between two renders. *)
(* Every handler is a useCallback closure over the current* values of the   *)
(* render that created it; setInternal<Slice> only queues the new value,    *)
(* which the next render reads.  Here the hook's variables hold what the    *)
(* last render read (and so what the handlers close over), xArgs.pending    *)
(* the values queued in React's state, xArgs.queued the number of calls     *)
(* since the last render and xResult the listeners' last arguments.         *)

\* most mutator calls issued between two renders
MaxQueued == 2

notHookCall == <<sortVars, modeVars, urlVars, pipeVars, codecVars, selVars>>

\* the uncontrolled options that carry the aggregate listener
BatchConfigs ==
    {[initialState |-> s, onStateChange |-> "fn"] : s \in InitialStates}

InitBatch ==
    /\ stateConfig \in BatchConfigs
    /\ urlSyncEnabled = FALSE
    /\ search = <<>>
    /\ \E initialPageSize \in InitialPageSizes :
         internalPagination =
             InitialPagination(stateConfig, initialPageSize,
                               urlInitialState(urlSyncEnabled, search))
    /\ internalSorting =
           InitialSorting(stateConfig, urlInitialState(urlSyncEnabled, search))
    /\ internalFiltering =
           InitialFiltering(stateConfig, urlInitialState(urlSyncEnabled, search))
    /\ internalSelection = InitialSelection(stateConfig)
    /\ calls = EmptyObject
    /\ lastOp = "mount"
    /\ xArgs = [pending |-> currentState, queued |-> 0]
    /\ xResult = EmptyObject
    /\ xLast = "mount"
    /\ SortIdle
    /\ ModeIdle
    /\ UrlIdle
    /\ PipeIdle
    /\ CodecIdle
    /\ SelIdle

\* an update<Slice>State call of the closure: setInternal<Slice> queues the
\* value, the listener runs at once
Queue(slice, update) ==
    /\ xArgs.queued < MaxQueued
    /\ xArgs' = [pending |-> [xArgs.pending EXCEPT ![slice] = update.internal],
                 queued |-> xArgs.queued + 1]
    /\ xResult' = update.calls
    /\ xLast' = slice
    /\ UNCHANGED hookVars
    /\ UNCHANGED notHookCall

BatchNextPage ==
    Queue("pagination",
          updatePaginationState(goToNextPage(currentPagination, pageCount)))

BatchGoToPage ==
    \E pageIndex \in GoToPageInputs :
        Queue("pagination",
              updatePaginationState(goToPage(currentPagination, pageIndex,
                                             pageCount)))

BatchToggleSort ==
    Queue("sorting", updateSortingState(toggleSort(currentSorting, COL_NAME)))

BatchSetGlobalFilter ==
    \E filter \in GlobalFilterInputs :
        Queue("filtering", updateFilteringState(setGlobalFilter(filter)))

\* React renders again: every current* value is read from the queued state
\* and the handlers are created anew over them
BatchRender ==
    /\ xArgs.queued > 0
    /\ internalPagination' = xArgs.pending.pagination
    /\ internalSorting' = xArgs.pending.sorting
    /\ internalFiltering' = xArgs.pending.filtering
    /\ internalSelection' = xArgs.pending.selection
    /\ xArgs' = [xArgs EXCEPT !.queued = 0]
    /\ xLast' = "render"
    /\ UNCHANGED <<stateConfig, urlSyncEnabled, search, calls, lastOp, xResult>>
    /\ UNCHANGED notHookCall

NextBatch ==
    \/ BatchNextPage
    \/ BatchGoToPage
    \/ BatchToggleSort
    \/ BatchSetGlobalFilter
    \/ BatchRender

SpecBatch == InitBatch /\ [][NextBatch]_vars

\* C37: in fully uncontrolled mode with onStateChange supplied, once the
\* table has derived its snapshot again after any sequence of mutator calls
\* (several of them possibly issued between two renders), the state last
\* delivered to onStateChange is the state the table exposes.
C37_DeliveredIsExposed ==
    xLast = "render" => xResult.onStateChange = currentState

----------------------------------------------------------------------------
(* SpecSeed: an uncontrolled table constructed on a location, the location  *)
(* changing afterwards.  xArgs holds the query string and the pageSize      *)
(* option of the construction, xResult the state before the last change of  *)
(* the location.                                                            *)

\* the uncontrolled `state` options: none, initialState with and without
\* overrides of a slice, and the listener alone
SeedConfigs ==
    {UndefV, Prop("onStateChange", "fn")}
    \cup {Prop("initialState", s) : s \in InitialStates}
    \cup {Prop("initialState",
               [pagination |-> [pageIndex |-> 1],
                filtering |-> setGlobalFilter(<<"z">>)])}

\* the query strings: "", "?page=9", "?page=9&pageSize=5",
\* "?sort=name&sortDir=DESC&q=a"
SeedQueries ==
    { <<>>,
      << <<DEFAULT_PARAM_NAMES.page, <<"9">>>> >>,
      << <<DEFAULT_PARAM_NAMES.page, <<"9">>>>,
         <<DEFAULT_PARAM_NAMES.pageSize, <<"5">>>> >>,
      << <<DEFAULT_PARAM_NAMES.sortColumn, COL_NAME>>,
         <<DEFAULT_PARAM_NAMES.sortDir, <<"D", "E", "S", "C">>>>,
         <<DEFAULT_PARAM_NAMES.globalFilter, <<"a">>>> >> }

InitSeed ==
    /\ stateConfig \in SeedConfigs
    /\ urlSyncEnabled \in BOOLEAN
    /\ search \in SeedQueries
    /\ \E initialPageSize \in InitialPageSizes :
         /\ internalPagination =
                InitialPagination(stateConfig, initialPageSize,
                                  urlInitialState(urlSyncEnabled, search))
         /\ xArgs = [search |-> search, initialPageSize |-> initialPageSize]
    /\ internalSorting =
           InitialSorting(stateConfig, urlInitialState(urlSyncEnabled, search))
    /\ internalFiltering =
           InitialFiltering(stateConfig, urlInitialState(urlSyncEnabled, search))
    /\ internalSelection = InitialSelection(stateConfig)
    /\ calls = EmptyObject
    /\ lastOp = "mount"
    /\ xResult = currentState
    /\ xLast = "mount"
    /\ SortIdle
    /\ ModeIdle
    /\ UrlIdle
    /\ PipeIdle
    /\ CodecIdle
    /\ SelIdle

\* the location's query string changes and the table renders again: the
\* urlInitialState memo may be computed anew, the useState initializers are
\* not run again, and nothing else reads the location
LocationChange ==
    /\ \E query \in SeedQueries :
         /\ query # search
         /\ search' = query
    /\ xResult' = currentState
    /\ lastOp' = "location"
    /\ calls' = EmptyObject
    /\ UNCHANGED <<stateConfig, urlSyncEnabled, internalPagination,
                   internalSorting, internalFiltering, internalSelection>>
    /\ UNCHANGED <<xArgs, xLast>>
    /\ UNCHANGED notHookCall

NextSeed ==
    \/ LocationChange
    \/ handleNextPage
    \/ handleToggleSort

SpecSeed == InitSeed /\ [][NextSeed]_vars

\* the part of the construction-time query string the table reads
UrlDerived ==
    IF urlSyncEnabled
    THEN parseStateFromUrl(xArgs.search, urlSyncConfigRef)
    ELSE EmptyObject

\* the caller's initialState
CallerInitial ==
    IF stateConfig # UndefV /\ "initialState" \in DOMAIN stateConfig
    THEN stateConfig.initialState
    ELSE EmptyObject

\* a pagination field by precedence: initialState, URL, pageSize option,
\* built-in default
SeededPaginationField(f) ==
    IF "pagination" \in DOMAIN CallerInitial /\ f \in DOMAIN CallerInitial.pagination
    THEN CallerInitial.pagination[f]
    ELSE IF "pagination" \in DOMAIN UrlDerived /\ f \in DOMAIN UrlDerived.pagination
    THEN UrlDerived.pagination[f]
    ELSE IF f = "pageSize" THEN xArgs.initialPageSize
    ELSE createInitialTableState.pagination[f]

\* a whole slice by precedence: initialState, URL, built-in default
SeededSlice(slice) ==
    IF slice \in DOMAIN CallerInitial THEN CallerInitial[slice]
    ELSE IF slice \in DOMAIN UrlDerived THEN UrlDerived[slice]
    ELSE createInitialTableState[slice]

\* C38: an uncontrolled table is seeded at construction, each pagination
\* field from initialState, else from the URL, else (pageSize) from the
\* pageSize option, else from the defaults, and the sorting and filtering
\* slices whole from initialState, else the URL, else the defaults; a later
\* change of the location's query string leaves the table state as it was.
C38_SeededOnce ==
    /\ lastOp = "mount" =>
          /\ DOMAIN currentPagination = {"pageIndex", "pageSize"}
          /\ \A f \in DOMAIN currentPagination :
                currentPagination[f] = SeededPaginationField(f)
          /\ currentSorting = SeededSlice("sorting")
          /\ currentFiltering = SeededSlice("filtering")
    /\ lastOp = "location" => currentState = xResult

\* constructed on "?page=9&pageSize=5" with initialState.pagination.pageIndex
\* 1 and initialState.filtering "z", the sort of `name` toggled once, and
\* the location then changed to "?sort=name&sortDir=DESC&q=a": page index 1
\* of size 5, sorted by name ascending, filter "z"
C38_Witness ==
    /\ lastOp = "location"
    /\ urlSyncEnabled
    /\ Len(xArgs.search) = 2
    /\ xArgs.search[1][2] = <<"9">>
    /\ Len(search) = 3
    /\ currentPagination = [pageIndex |-> 1, pageSize |-> 5]
    /\ currentSorting = setSort(COL_NAME, ASC)
    /\ currentFiltering = setGlobalFilter(<<"z">>)

----------------------------------------------------------------------------
(* SpecLive: the URL effect of a mounted table on a client, with renders    *)
(* that change no state.  routerAdapter is a dependency of the effect: when *)
(* the caller supplies no adapter it is createBrowserRouterAdapter(), a new *)
(* object on every render, and so is an adapter the caller builds inline;   *)
(* an adapter the caller keeps is the same object on every render.          *)
(* xArgs.adapter says which.  setTimeout takes a delay, so uNow counts the  *)
(* ticks since the pending timeout was set and stops when it is due; the    *)
(* host reuses the id of a cleared timeout.                                 *)

AdapterIdentities == {"new on every render", "same on every render"}

InitLive ==
    /\ uState \in UrlStates
    /\ uLocation \in UrlLocations
    /\ uTimeoutId = debounced(0, {}, 1, 0, DebounceMs, uState).timeoutId
    /\ uTimers = debounced(0, {}, 1, 0, DebounceMs, uState).timers
    /\ uNextId = 1
    /\ uNow = 0
    /\ uMounted = TRUE
    /\ uChanges = 0
    /\ uLastChange = 0
    /\ uBurst = 0
    /\ uWritesSinceChange = 0
    /\ uLastWrite = [at |-> -1, state |-> uState]
    /\ uWritesAfterUnmount = 0
    /\ xArgs \in [adapter : AdapterIdentities]
    /\ xResult = EmptyObject
    /\ xLast = "mount"
    /\ SortIdle
    /\ ModeIdle
    /\ HookIdle
    /\ PipeIdle
    /\ CodecIdle
    /\ SelIdle

\* the effect runs again: its cleanup, then debounced(currentState)
EffectRun(state) ==
    LET c == EffectCleanup(uTimeoutId, uTimers)
        d == debounced(c.timeoutId, c.timers, uNextId, 0, DebounceMs, state)
    IN  /\ uTimeoutId' = d.timeoutId
        /\ uTimers' = d.timers
        /\ uNow' = 0

\* currentState changes
LiveStateChange ==
    /\ uMounted
    /\ uChanges < MaxChanges
    /\ \E s \in UrlStates \ {uState} :
         /\ uState' = s
         /\ EffectRun(s)
    /\ uChanges' = uChanges + 1
    /\ uWritesSinceChange' = 0
    /\ xLast' = "change"
    /\ UNCHANGED <<uNextId, uMounted, uLocation, uLastChange, uBurst, uLastWrite,
                   uWritesAfterUnmount, xArgs, xResult>>
    /\ UNCHANGED notUrlCall

\* the component renders again with the same state (its parent rendered, or
\* a prop such as `data` changed): the effect runs again exactly when one
\* of its dependencies is a new object
LiveRerender ==
    /\ uMounted
    /\ IF xArgs.adapter = "new on every render"
       THEN EffectRun(uState)
       ELSE UNCHANGED <<uTimeoutId, uTimers, uNow>>
    /\ xLast' = "render"
    /\ UNCHANGED <<uState, uNextId, uMounted, uLocation, uChanges, uLastChange,
                   uBurst, uWritesSinceChange, uLastWrite, uWritesAfterUnmount,
                   xArgs, xResult>>
    /\ UNCHANGED notUrlCall

\* time passes while a timeout is pending and not yet due
LiveTick ==
    /\ \E t \in uTimers : uNow < t.due
    /\ uNow' = uNow + 1
    /\ xLast' = "tick"
    /\ UNCHANGED <<uState, uTimeoutId, uTimers, uNextId, uMounted, uLocation,
                   uChanges, uLastChange, uBurst, uWritesSinceChange,
                   uLastWrite, uWritesAfterUnmount, xArgs, xResult>>
    /\ UNCHANGED notUrlCall

\* the due timeout fires: the state it was scheduled with is written
LiveTimerFire ==
    /\ \E t \in uTimers :
         /\ t.due <= uNow
         /\ uTimers' = uTimers \ {t}
         /\ uLocation' = serializeStateToUrl(t.args, uLocation, urlSyncConfigRef)
         /\ uLastWrite' = [at |-> uNow, state |-> t.args]
    /\ uTimeoutId' = 0
    /\ uWritesSinceChange' = 1
    /\ xLast' = "fire"
    /\ UNCHANGED <<uState, uNextId, uNow, uMounted, uChanges, uLastChange,
                   uBurst, uWritesAfterUnmount, xArgs, xResult>>
    /\ UNCHANGED notUrlCall

\* teardown: the effect's cleanup runs
LiveUnmount ==
    /\ uMounted
    /\ uMounted' = FALSE
    /\ uTimeoutId' = EffectCleanup(uTimeoutId, uTimers).timeoutId
    /\ uTimers' = EffectCleanup(uTimeoutId, uTimers).timers
    /\ xLast' = "unmount"
    /\ UNCHANGED <<uState, uNextId, uNow, uLocation, uChanges, uLastChange,
                   uBurst, uWritesSinceChange, uLastWrite, uWritesAfterUnmount,
                   xArgs, xResult>>
    /\ UNCHANGED notUrlCall

NextLive ==
    \/ LiveStateChange
    \/ LiveRerender
    \/ LiveTick
    \/ LiveTimerFire
    \/ LiveUnmount

\* the host's clock advances and the host runs a timeout that is due; when
\* the component renders is up to its environment
SpecLive ==
    /\ InitLive
    /\ [][NextLive]_vars
    /\ WF_vars(LiveTick)
    /\ WF_vars(LiveTimerFire)

\* the current state has been written to the URL since it last changed
FinalStateWritten ==
    /\ uWritesSinceChange = 1
    /\ uLastWrite.state = uState

\* C39: with URL sync enabled on a client, after every state change one of
\* three things eventually happens: a further state change, the teardown of
\* the table, or a write of the current state to the URL; renders that
\* change no state neither drop the scheduled write nor postpone it forever.
C39_FinalStateEventuallyWritten ==
    \A k \in 0..MaxChanges :
        (uChanges = k) ~> (uChanges # k \/ ~uMounted \/ FinalStateWritten)

----------------------------------------------------------------------------
(* SpecFilter: the filtering mutators of an uncontrolled table with filters *)
(* on two columns.  xArgs holds the arguments of the last call and the      *)
(* filter state it found, xLast the mutator.                                *)

FilterColumnIds == {COL_NAME, COL_AGE}
FilterTexts == {<<>>, <<"a">>, <<"z">>}

FilterConfigs ==
    {UndefV,
     [initialState |-> [filtering |-> Spread(setGlobalFilter(<<"a">>),
                                             Prop("columnFilters",
                                                  Prop(COL_AGE, <<"z">>)))],
      onStateChange |-> "fn"]}

InitFilter ==
    /\ stateConfig \in FilterConfigs
    /\ urlSyncEnabled = FALSE
    /\ search = <<>>
    /\ \E initialPageSize \in InitialPageSizes :
         internalPagination =
             InitialPagination(stateConfig, initialPageSize,
                               urlInitialState(urlSyncEnabled, search))
    /\ internalSorting =
           InitialSorting(stateConfig, urlInitialState(urlSyncEnabled, search))
    /\ internalFiltering =
           InitialFiltering(stateConfig, urlInitialState(urlSyncEnabled, search))
    /\ internalSelection = InitialSelection(stateConfig)
    /\ calls = EmptyObject
    /\ lastOp = "mount"
    /\ xArgs = EmptyObject
    /\ xResult = EmptyObject
    /\ xLast = "mount"
    /\ SortIdle
    /\ ModeIdle
    /\ UrlIdle
    /\ PipeIdle
    /\ CodecIdle
    /\ SelIdle

\* the tail the filtering mutators share, updateFilteringState(newFiltering),
\* and the render that follows
FilterCommit(mutator, args, newFiltering) ==
    /\ internalFiltering' = updateFilteringState(newFiltering).internal
    /\ calls' = updateFilteringState(newFiltering).calls
    /\ lastOp' = "filtering"
    /\ xArgs' = Spread(args, Prop("before", currentFiltering))
    /\ xLast' = mutator
    /\ UNCHANGED <<stateConfig, urlSyncEnabled, search, internalPagination,
                   internalSorting, internalSelection, xResult>>
    /\ UNCHANGED notHookCall

FilterSetGlobal ==
    \E filter \in FilterTexts :
        FilterCommit("setGlobalFilter", [filter |-> filter],
                     setGlobalFilter(filter))

FilterSetColumn ==
    \E columnId \in FilterColumnIds, filter \in FilterTexts :
        FilterCommit("setColumnFilter", [columnId |-> columnId, filter |-> filter],
                     setColumnFilter(currentFiltering, columnId, filter))

FilterClearColumn ==
    \E columnId \in FilterColumnIds :
        FilterCommit("clearColumnFilter", [columnId |-> columnId],
                     clearColumnFilter(currentFiltering, columnId))

FilterClearAll ==
    FilterCommit("clearAllFilters", EmptyObject, clearAllFilters)

NextFilter ==
    \/ FilterSetGlobal
    \/ FilterSetColumn
    \/ FilterClearColumn
    \/ FilterClearAll

SpecFilter == InitFilter /\ [][NextFilter]_vars

\* the column filters other than the named column's are those before the call
OtherColumnFiltersKept(columnId) ==
    /\ DOMAIN currentFiltering.columnFilters \ {columnId} =
           DOMAIN xArgs.before.columnFilters \ {columnId}
    /\ \A c \in DOMAIN xArgs.before.columnFilters \ {columnId} :
           currentFiltering.columnFilters[c] = xArgs.before.columnFilters[c]

\* C40: setGlobalFilter(f) makes the filter state {globalFilter: f,
\* columnFilters: {}}, whatever column filters were set; setColumnFilter(c, f)
\* sets the entry of column c to f and clearColumnFilter(c) removes it, both
\* keeping the global filter and every other column's filter.
C40_FilterMutatorFrames ==
    /\ DOMAIN currentFiltering = {"globalFilter", "columnFilters"}
    /\ xLast = "setGlobalFilter" =>
          /\ currentFiltering.globalFilter = xArgs.filter
          /\ DOMAIN currentFiltering.columnFilters = {}
    /\ xLast = "setColumnFilter" =>
          /\ currentFiltering.globalFilter = xArgs.before.globalFilter
          /\ xArgs.columnId \in DOMAIN currentFiltering.columnFilters
          /\ currentFiltering.columnFilters[xArgs.columnId] = xArgs.filter
          /\ OtherColumnFiltersKept(xArgs.columnId)
    /\ xLast = "clearColumnFilter" =>
          /\ currentFiltering.globalFilter = xArgs.before.globalFilter
          /\ xArgs.columnId \notin DOMAIN currentFiltering.columnFilters
          /\ OtherColumnFiltersKept(xArgs.columnId)

\* with filters on both columns and a global filter set, the filter of
\* `name` has been replaced: the filter of `age` and the global filter stand
C40_Witness ==
    /\ xLast = "setColumnFilter"
    /\ xArgs.columnId = COL_NAME
    /\ xArgs.before.globalFilter = <<"a">>
    /\ DOMAIN xArgs.before.columnFilters = FilterColumnIds
    /\ xArgs.before.columnFilters[COL_NAME] = <<"a">>
    /\ currentFiltering =
           [globalFilter |-> <<"a">>,
            columnFilters |-> Spread(Prop(COL_AGE, <<"z">>),
                                     Prop(COL_NAME, <<"z">>))]

====
